---- MODULE Spec2Model ----
(***************************************************************************)
(* A model of the biathlon prototype: main loads the configuration, the    *)
(* Simulator reads the event file line by line (LoadEventsFromFile),       *)
(* applies each event (ProcessEvent), runs CheckForNotStarted, and main    *)
(* writes the narration log and the ranked report; created holds the files *)
(* writeLinesToFile has created.                                           *)
(*                                                                         *)
(* Times are milliseconds of the day (time.Parse with the layout           *)
(* 15:04:05.000 yields an instant of year 0); durations are milliseconds.  *)
(* A speed (float64, m/s) is kept as the exact fraction num/den.           *)
(* A token of a line is a record: t = "time" for hh:mm:ss.mmm (a, b, c, d),*)
(* t = "int" for a decimal integer (a), any other t is that word.          *)
(***************************************************************************)
EXTENDS Integers, Sequences, FiniteSets, TLC

VARIABLES pc, configFile, cfg, file, budget, lineNumber, previousTimestamp,
          simulator, err, outputLogFile, outputReportFile, created, codec

vars == <<pc, configFile, cfg, file, budget, lineNumber, previousTimestamp,
          simulator, err, outputLogFile, outputReportFile, created, codec>>

\* ------------------------------------------------------------------ bounds
\* Lines the event file may hold after its fixed opening lines.
MaxLines == 3
\* Competitor ids that occur in event lines: 1..MaxCompetitors.
MaxCompetitors == 2
\* Timestamps of free event lines: 10:00:00 + 2 s * (0..MaxTick).
MaxTick == 1

\* ------------------------------------------------------------------ tokens
Tok(t, a, b, c, d) == [t |-> t, a |-> a, b |-> b, c |-> c, d |-> d]
TimeTok(h, m, s, ms) == Tok("time", h, m, s, ms)
IntTok(n) == Tok("int", n, 0, 0, 0)
WordTok(w) == Tok(w, 0, 0, 0, 0)
Words(ws) == [i \in 1..Len(ws) |-> WordTok(ws[i])]

\* ------------------------------------------------------------------ time
\* time.Time{}: the instant of year 1, later than every parsed time of day.
ZeroTime == -1
IsZero(t) == t = ZeroTime
After(t, u) == IF IsZero(u) THEN FALSE ELSE IF IsZero(t) THEN TRUE ELSE t > u
Before(t, u) == After(u, t)
\* t.Sub(u). An instant of year 0 minus the zero instant is minus a year,
\* which is outside TLC's integers: it is kept as a duration below minus
\* three weeks, and the code reads only its sign.
Sub(t, u) ==
    IF IsZero(t) /\ IsZero(u) THEN 0
    ELSE IF IsZero(u) THEN t - 2000000000
    ELSE IF IsZero(t) THEN 2000000000 - u
    ELSE t - u

NoTime == [ok |-> FALSE, v |-> ZeroTime]
\* time.Parse(TimeLayout, s) after strings.Trim(s, "[]").
ParseTimeFromString(tok) ==
    IF /\ tok.t = "time"
       /\ tok.a \in 0..23 /\ tok.b \in 0..59 /\ tok.c \in 0..59 /\ tok.d \in 0..999
    THEN [ok |-> TRUE, v |-> ((tok.a * 60 + tok.b) * 60 + tok.c) * 1000 + tok.d]
    ELSE NoTime

\* time.ParseDuration of "<a>h<b>m<c>s": minutes and seconds are not limited
\* to 59.
ParseDurationFromString(tok) ==
    IF tok.t = "time" /\ tok.a >= 0 /\ tok.b >= 0 /\ tok.c >= 0 /\ tok.d \in 0..999
    THEN [ok |-> TRUE, v |-> ((tok.a * 60 + tok.b) * 60 + tok.c) * 1000 + tok.d]
    ELSE [ok |-> FALSE, v |-> 0]

\* t.Format(TimeLayout): the time of day of the instant.
FormatTime(t) ==
    LET r == t % 86400000
    IN  TimeTok(r \div 3600000, (r % 3600000) \div 60000, (r % 60000) \div 1000,
                r % 1000)

\* FormatDuration of a duration of whole milliseconds; Go's division
\* truncates toward zero, so every field of a negative duration is negative.
FormatDuration(dur) ==
    LET n == IF dur < 0 THEN -dur ELSE dur
        sg == IF dur < 0 THEN -1 ELSE 1
    IN  TimeTok(sg * (n \div 3600000), sg * ((n % 3600000) \div 60000),
                sg * ((n % 60000) \div 1000), sg * (n % 1000))

ZeroSpeed == [num |-> 0, den |-> 1]
\* A faulty CalculateSpeed: it divides by a duration of zero.
CalculateSpeedUnguarded(distance, duration) ==
    IF duration < 0 THEN ZeroSpeed
    ELSE [num |-> distance * 1000, den |-> duration]

\* distance (m) / duration.Seconds(), as the fraction num/den in m/s.
CalculateSpeed(distance, duration) ==
    IF duration <= 0 THEN ZeroSpeed
    ELSE [num |-> distance * 1000, den |-> duration]

\* ------------------------------------------------------------------ text
\* The same two conversions on the characters of the string; a string is a
\* sequence of one-character strings. The operators on tokens above are what
\* they come to on the well-formed fields of a line.
Digit(n) == <<"0", "1", "2", "3", "4", "5", "6", "7", "8", "9">>[n + 1]
IsDigit(c) == \E n \in 0..9 : Digit(n) = c
DigitValue(c) == CHOOSE n \in 0..9 : Digit(n) = c

RECURSIVE Decimal(_)
Decimal(n) ==
    IF n < 10 THEN <<Digit(n)>> ELSE Append(Decimal(n \div 10), Digit(n % 10))

RECURSIVE PadZero(_, _)
PadZero(digits, width) ==
    IF Len(digits) >= width THEN digits ELSE PadZero(<<"0">> \o digits, width)

\* fmt.Sprintf("%0<width>d", n): the sign counts in the width.
Sprintf0d(n, width) ==
    IF n < 0 THEN <<"-">> \o PadZero(Decimal(-n), width - 1)
    ELSE PadZero(Decimal(n), width)

\* A faulty FormatDuration: the milliseconds are written without padding.
FormatDurationTextUnpadded(dur) ==
    LET n == IF dur < 0 THEN -dur ELSE dur
        sg == IF dur < 0 THEN -1 ELSE 1
    IN  Sprintf0d(sg * (n \div 3600000), 2) \o <<":">>
        \o Sprintf0d(sg * ((n % 3600000) \div 60000), 2) \o <<":">>
        \o Sprintf0d(sg * ((n % 60000) \div 1000), 2) \o <<".">>
        \o Sprintf0d(sg * (n % 1000), 1)

\* FormatDuration of a duration of whole milliseconds, which Round leaves as
\* it is: fmt.Sprintf("%02d:%02d:%02d.%03d", h, m, s, ms).
FormatDurationText(dur) ==
    LET n == IF dur < 0 THEN -dur ELSE dur
        sg == IF dur < 0 THEN -1 ELSE 1
    IN  Sprintf0d(sg * (n \div 3600000), 2) \o <<":">>
        \o Sprintf0d(sg * ((n % 3600000) \div 60000), 2) \o <<":">>
        \o Sprintf0d(sg * ((n % 60000) \div 1000), 2) \o <<".">>
        \o Sprintf0d(sg * (n % 1000), 3)

\* strings.Split(str, ":")
RECURSIVE Split(_)
Split(str) ==
    IF \A i \in 1..Len(str) : str[i] # ":" THEN <<str>>
    ELSE LET i == CHOOSE k \in 1..Len(str) :
                      str[k] = ":" /\ \A j \in 1..(k - 1) : str[j] # ":"
         IN  <<SubSeq(str, 1, i - 1)>> \o Split(SubSeq(str, i + 1, Len(str)))

RECURSIVE DecimalValue(_)
DecimalValue(digits) ==
    IF digits = <<>> THEN 0
    ELSE DecimalValue(SubSeq(digits, 1, Len(digits) - 1)) * 10
             + DigitValue(digits[Len(digits)])

RECURSIVE Power10(_)
Power10(k) == IF k = 0 THEN 1 ELSE 10 * Power10(k - 1)

\* One number of time.ParseDuration, followed by its unit: digits, at most
\* one point, at least one digit; the value in milliseconds. A fraction has
\* up to three digits in the strings read here, which every unit turns into
\* whole milliseconds; what a longer fraction adds below the millisecond is
\* dropped.
Number(part, unitMs) ==
    LET dots == {i \in 1..Len(part) : part[i] = "."}
        dot == IF dots = {} THEN Len(part) + 1 ELSE CHOOSE i \in dots : TRUE
        whole == SubSeq(part, 1, dot - 1)
        fraction == SubSeq(part, dot + 1, Len(part))
        thousandths ==
            IF Len(fraction) <= 3
            THEN DecimalValue(fraction) * Power10(3 - Len(fraction))
            ELSE DecimalValue(fraction) \div Power10(Len(fraction) - 3)
    IN  IF /\ Cardinality(dots) <= 1
           /\ \A i \in 1..Len(part) : i \notin dots => IsDigit(part[i])
           /\ Len(whole) + Len(fraction) > 0
        THEN [ok |-> TRUE,
              v |-> DecimalValue(whole) * unitMs + thousandths * (unitMs \div 1000)]
        ELSE [ok |-> FALSE, v |-> 0]

\* time.ParseDuration of parts[1] "h" parts[2] "m" parts[3] "s": one leading
\* sign, then the three numbers with their units.
ParseDuration(parts) ==
    LET signed == parts[1] # <<>> /\ parts[1][1] \in {"-", "+"}
        first == IF signed THEN Tail(parts[1]) ELSE parts[1]
        h == Number(first, 3600000)
        m == Number(parts[2], 60000)
        s == Number(parts[3], 1000)
        sum == h.v + m.v + s.v
    IN  IF h.ok /\ m.ok /\ s.ok
        THEN [ok |-> TRUE,
              v |-> IF signed /\ parts[1][1] = "-" THEN -sum ELSE sum]
        ELSE [ok |-> FALSE, v |-> 0]

\* ParseDurationFromString on the characters of the string.
ParseDurationFromText(durationStr) ==
    LET parts == Split(durationStr)
    IN  IF Len(parts) # 3 THEN [ok |-> FALSE, v |-> 0]
        ELSE ParseDuration(parts)

\* The codec at rest: the runs of main do not use it.
NoCodec ==
    [from |-> "none", dur |-> 0, text |-> <<>>,
     parsed |-> [ok |-> FALSE, v |-> 0], out |-> <<>>, step |-> 0]

\* ------------------------------------------------------------------ events
Register == 1
SetStartTime == 2
OnStartLine == 3
Started == 4
EnterFiringRange == 5
HitTarget == 6
LeaveFiringRange == 7
EnterPenaltyLaps == 8
LeavePenaltyLaps == 9
EndLap == 10
CannotContinue == 11
Disqualified == 32
Finished == 33

NoError == [msg |-> "", a |-> 0, b |-> 0]
Error(msg, a, b) == [msg |-> msg, a |-> a, b |-> b]

\* strconv.Atoi of one token.
Atoi(tok) == [ok |-> tok.t = "int", v |-> IF tok.t = "int" THEN tok.a ELSE 0]

NoEvent ==
    [Timestamp |-> ZeroTime, ID |-> 0, CompetitorID |-> 0,
     ExtraParameters |-> <<>>, RawLine |-> <<>>, IsIncoming |-> FALSE]

\* ParseEventFromString: line is strings.Fields of the text line.
ParseEventFromString(line) ==
    IF Len(line) < 3 THEN [ok |-> FALSE, event |-> NoEvent]
    ELSE LET ts == ParseTimeFromString(line[1])
             id == Atoi(line[2])
             comp == Atoi(line[3])
         IN  IF ~ts.ok \/ ~id.ok \/ ~comp.ok
             THEN [ok |-> FALSE, event |-> NoEvent]
             ELSE [ok |-> TRUE,
                   event |->
                       [Timestamp |-> ts.v, ID |-> id.v, CompetitorID |-> comp.v,
                        ExtraParameters |-> SubSeq(line, 4, Len(line)),
                        RawLine |-> line,
                        IsIncoming |-> id.v >= Register /\ id.v <= CannotContinue]]

\* Event.String: the narration line, as its time stamp, its sentence, the
\* competitor and the words the sentence embeds.
EventString(event) ==
    LET p == event.ExtraParameters
        has == Len(p) > 0
        L(msg, arg) == [time |-> FormatTime(event.Timestamp), msg |-> msg,
                        competitor |-> event.CompetitorID, arg |-> arg]
    IN  CASE event.ID = Register -> L("registered", <<>>)
          [] event.ID = SetStartTime ->
                L("start time was set by a draw to",
                  IF ~has THEN Words(<<"N/A">>)
                  ELSE IF ParseTimeFromString(p[1]).ok
                       THEN <<FormatTime(ParseTimeFromString(p[1]).v)>>
                       ELSE <<p[1]>>)
          [] event.ID = OnStartLine -> L("is on the start line", <<>>)
          [] event.ID = Started -> L("has started", <<>>)
          [] event.ID = EnterFiringRange ->
                L("is on the firing range", IF has THEN <<p[1]>> ELSE Words(<<"?">>))
          [] event.ID = HitTarget ->
                L("target has been hit by", IF has THEN <<p[1]>> ELSE Words(<<"?">>))
          [] event.ID = LeaveFiringRange -> L("left the firing range", <<>>)
          [] event.ID = EnterPenaltyLaps -> L("entered the penalty laps", <<>>)
          [] event.ID = LeavePenaltyLaps -> L("left the penalty laps", <<>>)
          [] event.ID = EndLap -> L("ended the main lap", <<>>)
          [] event.ID = CannotContinue -> L("cannot continue", p)
          [] event.ID = Disqualified ->
                L("is disqualified",
                  IF has THEN p ELSE Words(<<"Reason", "not", "specified">>))
          [] event.ID = Finished -> L("has finished", <<>>)
          [] OTHER -> L("Unknown event ID", <<IntTok(event.ID)>>)

\* ------------------------------------------------------------------ competitor
StatusRegistered == "Registered"
StatusReadyToStart == "ReadyToStart"
StatusStarted == "Started"
StatusFiring == "Firing"
StatusPenalized == "Penalized"
StatusFinished == "Finished"
StatusNotFinished == "NotFinished"
StatusNotStarted == "NotStarted"
StatusDisqualified == "Disqualified"

NoLapDetail == [Duration |-> 0, Speed |-> ZeroSpeed]
NoPenaltyDetail == [TotalDuration |-> 0, AverageSpeed |-> ZeroSpeed]

NewCompetitor(id, registrationTime) ==
    [ID |-> id, Status |-> StatusRegistered,
     ScheduledStartTime |-> ZeroTime, ActualStartTime |-> ZeroTime,
     FinishTime |-> ZeroTime, LastEventTime |-> registrationTime,
     CurrentLap |-> 0, CurrentLapStartTime |-> ZeroTime, LapDetails |-> <<>>,
     LastFiringRangeEntered |-> 0, TotalFiringRangesCompleted |-> 0,
     HitsThisRange |-> 0, TotalHits |-> 0, TotalShots |-> 0,
     MissesToPenalize |-> 0, PenaltyStartTime |-> ZeroTime,
     TotalPenaltyTime |-> 0, TotalPenaltyLaps |-> 0,
     PenaltyDetails |-> NoPenaltyDetail, DisqualificationReason |-> <<>>]

\* A faulty CalculateTotalTime: the delay of the start is not added.
CalculateTotalTimeWithoutDelay(competitor) ==
    IF competitor.Status # StatusFinished THEN [ok |-> FALSE, v |-> 0]
    ELSE IF IsZero(competitor.ActualStartTime) THEN [ok |-> FALSE, v |-> 0]
    ELSE [ok |-> TRUE,
          v |-> Sub(competitor.FinishTime, competitor.ActualStartTime)]

\* Competitor.CalculateTotalTime
CalculateTotalTime(competitor) ==
    IF competitor.Status # StatusFinished THEN [ok |-> FALSE, v |-> 0]
    ELSE IF IsZero(competitor.ActualStartTime) THEN [ok |-> FALSE, v |-> 0]
    ELSE LET d == Sub(competitor.ActualStartTime, competitor.ScheduledStartTime)
             startDiff == IF d < 0 THEN 0 ELSE d
             raceDuration == Sub(competitor.FinishTime, competitor.ActualStartTime)
         IN  [ok |-> TRUE, v |-> raceDuration + startDiff]

\* ------------------------------------------------------------------ simulator
\* A faulty terminal test: the statuses CannotContinue tests, NotFinished
\* left out.
IsTerminalButNotFinished(status) ==
    status \in {StatusFinished, StatusNotStarted, StatusDisqualified}

IsTerminal(status) ==
    status \in {StatusFinished, StatusNotFinished, StatusNotStarted,
                StatusDisqualified}

NoConfig ==
    [Laps |-> 0, LapLen |-> 0, PenaltyLen |-> 0, FiringLines |-> 0,
     Start |-> WordTok(""), StartDelta |-> WordTok(""),
     ParsedStart |-> ZeroTime, ParsedStartDelta |-> 0]

NewSimulator(config) ==
    [Config |-> config, Competitors |-> <<>>, Events |-> <<>>,
     CurrentTime |-> ZeroTime, OutputLog |-> <<>>]

\* The result of ProcessEvent: the simulator it leaves and the error it returns.
Ret(sim, e) == [sim |-> sim, err |-> e]
\* A store through the *Competitor pointer held in the map.
Put(sim, competitor) ==
    [sim EXCEPT !.Competitors = (competitor.ID :> competitor) @@ @]

\* A faulty PenaltySummary: the distance of one penalty lap, whatever the
\* number of laps served.
PenaltySummaryOneLap(sim, competitor) ==
    IF competitor.TotalPenaltyLaps > 0 /\ sim.Config.PenaltyLen > 0
    THEN [TotalDuration |-> competitor.TotalPenaltyTime,
          AverageSpeed |->
              CalculateSpeed(sim.Config.PenaltyLen, competitor.TotalPenaltyTime)]
    ELSE competitor.PenaltyDetails

\* The penalty summary FinishCompetitor and CannotContinue compute.
PenaltySummary(sim, competitor) ==
    IF competitor.TotalPenaltyLaps > 0 /\ sim.Config.PenaltyLen > 0
    THEN [TotalDuration |-> competitor.TotalPenaltyTime,
          AverageSpeed |->
              CalculateSpeed(competitor.TotalPenaltyLaps * sim.Config.PenaltyLen,
                             competitor.TotalPenaltyTime)]
    ELSE competitor.PenaltyDetails

DerivedEvent(id, competitorID, timestamp, extra) ==
    [Timestamp |-> timestamp, ID |-> id, CompetitorID |-> competitorID,
     ExtraParameters |-> extra, RawLine |-> <<>>, IsIncoming |-> FALSE]

\* A faulty FinishCompetitor: a competitor that has not completed every
\* firing line is not finished.
FinishCompetitorAllLines(sim, id, finishTime) ==
    LET competitor == sim.Competitors[id]
        finishEvent == DerivedEvent(Finished, id, finishTime, <<>>)
    IN  IF \/ IsTerminal(competitor.Status)
           \/ competitor.TotalFiringRangesCompleted < sim.Config.FiringLines
        THEN sim
        ELSE [Put(sim, [competitor EXCEPT
                            !.Status = StatusFinished,
                            !.FinishTime = finishTime,
                            !.PenaltyDetails = PenaltySummary(sim, competitor)])
                EXCEPT !.Events = Append(@, finishEvent),
                       !.OutputLog = Append(@, EventString(finishEvent))]

\* Simulator.FinishCompetitor on the competitor with this id.
FinishCompetitor(sim, id, finishTime) ==
    LET competitor == sim.Competitors[id]
        finishEvent == DerivedEvent(Finished, id, finishTime, <<>>)
    IN  IF IsTerminal(competitor.Status) THEN sim
        ELSE [Put(sim, [competitor EXCEPT
                            !.Status = StatusFinished,
                            !.FinishTime = finishTime,
                            !.PenaltyDetails = PenaltySummary(sim, competitor)])
                EXCEPT !.Events = Append(@, finishEvent),
                       !.OutputLog = Append(@, EventString(finishEvent))]

\* A faulty scan: it looks for an incoming disqualification.
AlreadyDQEventExistsIncoming(events, id) ==
    \E i \in 1..Len(events) :
        /\ events[i].IsIncoming
        /\ events[i].ID = Disqualified
        /\ events[i].CompetitorID = id

\* The scan of the event history for a derived disqualification.
AlreadyDQEventExists(events, id) ==
    \E i \in 1..Len(events) :
        /\ ~events[i].IsIncoming
        /\ events[i].ID = Disqualified
        /\ events[i].CompetitorID = id

ReasonNotStarted == Words(<<"NotStarted">>)
ReasonExtraFiringLine == Words(<<"Extra", "firing", "line">>)

\* A faulty DisqualifyCompetitor: the narration line is appended outside the
\* test of the history.
DisqualifyCompetitorAlwaysNarrated(sim, id, dqTime, reason) ==
    LET competitor == sim.Competitors[id]
        dqEvent == DerivedEvent(Disqualified, id, dqTime, reason)
        sim1 == Put(sim, [competitor EXCEPT
                              !.FinishTime = dqTime,
                              !.Status = IF reason = ReasonNotStarted
                                         THEN StatusNotStarted
                                         ELSE StatusDisqualified,
                              !.DisqualificationReason = reason])
    IN  IF competitor.Status \in {StatusFinished, StatusNotFinished,
                                  StatusNotStarted, StatusDisqualified}
        THEN sim
        ELSE [sim1 EXCEPT
                  !.Events = IF AlreadyDQEventExists(sim.Events, id) THEN @
                             ELSE Append(@, dqEvent),
                  !.OutputLog = Append(@, EventString(dqEvent))]

\* Simulator.DisqualifyCompetitor on the competitor with this id.
DisqualifyCompetitor(sim, id, dqTime, reason) ==
    LET competitor == sim.Competitors[id]
        dqEvent == DerivedEvent(Disqualified, id, dqTime, reason)
        sim1 == Put(sim, [competitor EXCEPT
                              !.FinishTime = dqTime,
                              !.Status = IF reason = ReasonNotStarted
                                         THEN StatusNotStarted
                                         ELSE StatusDisqualified,
                              !.DisqualificationReason = reason])
    IN  IF IsTerminal(competitor.Status) THEN sim
        ELSE IF AlreadyDQEventExists(sim.Events, id) THEN sim1
        ELSE [sim1 EXCEPT !.Events = Append(@, dqEvent),
                          !.OutputLog = Append(@, EventString(dqEvent))]

\* ------------------------------------------------------------------ handlers
\* Each handler is one case of the switch of ProcessEvent; competitor is the
\* record behind the pointer, LastEventTime already stored.

HandleSetStartTime(sim, competitor, event) ==
    IF Len(event.ExtraParameters) < 1
    THEN Ret(sim, Error("start time missing for SetStartTime event", competitor.ID, 0))
    ELSE LET scheduledTime == ParseTimeFromString(event.ExtraParameters[1])
         IN  IF ~scheduledTime.ok
             THEN Ret(sim, Error("invalid start time format", competitor.ID, 0))
             ELSE Ret(Put(sim, [competitor EXCEPT
                                    !.ScheduledStartTime = scheduledTime.v]),
                      NoError)

HandleOnStartLine(sim, competitor, event) ==
    IF competitor.Status \in {StatusRegistered, StatusReadyToStart}
    THEN Ret(Put(sim, [competitor EXCEPT !.Status = StatusReadyToStart]), NoError)
    ELSE Ret(sim, NoError)

HandleStarted(sim, competitor, event) ==
    IF /\ ~IsZero(competitor.ScheduledStartTime)
       /\ After(event.Timestamp,
                competitor.ScheduledStartTime + sim.Config.ParsedStartDelta)
    THEN Ret(DisqualifyCompetitor(sim, competitor.ID, event.Timestamp,
                                  ReasonNotStarted), NoError)
    ELSE Ret(Put(sim, [competitor EXCEPT
                           !.Status = StatusStarted,
                           !.ActualStartTime = event.Timestamp,
                           !.CurrentLap = 1,
                           !.CurrentLapStartTime = event.Timestamp]),
             NoError)

HandleEnterFiringRange(sim, competitor, event) ==
    IF competitor.TotalFiringRangesCompleted >= sim.Config.FiringLines
    THEN Ret(DisqualifyCompetitor(sim, competitor.ID, event.Timestamp,
                                  ReasonExtraFiringLine), NoError)
    ELSE IF Len(event.ExtraParameters) = 0
    THEN Ret(sim, Error("missing milestone number in event 5", competitor.ID, 0))
    ELSE IF ~Atoi(event.ExtraParameters[1]).ok
    THEN Ret(sim, Error("invalid milestone number in event 5", competitor.ID, 0))
    ELSE LET actualRangeNumFromEvent == Atoi(event.ExtraParameters[1]).v
             expectedRangeGlobalNum == competitor.TotalFiringRangesCompleted + 1
         IN  IF /\ actualRangeNumFromEvent # expectedRangeGlobalNum
                /\ \/ actualRangeNumFromEvent <= 0
                   \/ actualRangeNumFromEvent > sim.Config.FiringLines
             THEN Ret(sim, Error("invalid milestone number from event",
                                 actualRangeNumFromEvent, competitor.ID))
             ELSE IF actualRangeNumFromEvent > sim.Config.FiringLines
             THEN Ret(sim, Error("more than the configured milestones",
                                 actualRangeNumFromEvent, competitor.ID))
             ELSE Ret(Put(sim, [competitor EXCEPT
                                    !.Status = StatusFiring,
                                    !.HitsThisRange = 0,
                                    !.LastFiringRangeEntered =
                                        actualRangeNumFromEvent]),
                      NoError)

HandleHitTarget(sim, competitor, event) ==
    IF competitor.Status # StatusFiring THEN Ret(sim, NoError)
    ELSE Ret(Put(sim, [competitor EXCEPT !.HitsThisRange = @ + 1,
                                         !.TotalHits = @ + 1]),
             NoError)

\* A faulty HandleLeaveFiringRange: 5 shots at every leave in status Firing,
\* whatever range was entered.
HandleLeaveFiringRangeAlwaysFive(sim, competitor, event) ==
    IF competitor.Status # StatusFiring
    THEN Ret(Put(sim, [competitor EXCEPT !.LastFiringRangeEntered = 0]), NoError)
    ELSE LET d == 5 - competitor.HitsThisRange
             misses == IF d < 0 THEN 0 ELSE d
             owed == competitor.MissesToPenalize + misses
         IN  Ret(Put(sim, [competitor EXCEPT
                               !.TotalShots = @ + 5,
                               !.TotalFiringRangesCompleted = @ + 1,
                               !.MissesToPenalize = owed,
                               !.Status = IF owed = 0 THEN StatusStarted ELSE @,
                               !.HitsThisRange = 0,
                               !.LastFiringRangeEntered = 0]),
                 NoError)

HandleLeaveFiringRange(sim, competitor, event) ==
    IF competitor.Status # StatusFiring
    THEN Ret(Put(sim, [competitor EXCEPT !.LastFiringRangeEntered = 0]), NoError)
    ELSE LET counted ==
                 /\ competitor.LastFiringRangeEntered > 0
                 /\ competitor.LastFiringRangeEntered >
                        competitor.TotalFiringRangesCompleted
             shotsThisRange == IF counted THEN 5 ELSE 0
             d == shotsThisRange - competitor.HitsThisRange
             misses == IF d < 0 THEN 0 ELSE d
             owed == competitor.MissesToPenalize + misses
         IN  Ret(Put(sim, [competitor EXCEPT
                               !.TotalShots = @ + shotsThisRange,
                               !.TotalFiringRangesCompleted =
                                   IF counted THEN @ + 1 ELSE @,
                               !.MissesToPenalize = owed,
                               !.Status = IF owed = 0 THEN StatusStarted ELSE @,
                               !.HitsThisRange = 0,
                               !.LastFiringRangeEntered = 0]),
                 NoError)

\* A faulty HandleEnterPenaltyLaps: the misses owed are not tested.
HandleEnterPenaltyLapsUnowed(sim, competitor, event) ==
    IF sim.Config.PenaltyLen <= 0
    THEN Ret(Put(sim, [competitor EXCEPT !.Status = StatusStarted]), NoError)
    ELSE Ret(Put(sim, [competitor EXCEPT
                           !.Status = StatusPenalized,
                           !.PenaltyStartTime = event.Timestamp]),
             NoError)

HandleEnterPenaltyLaps(sim, competitor, event) ==
    IF sim.Config.PenaltyLen <= 0
    THEN Ret(Put(sim, [competitor EXCEPT !.Status = StatusStarted]), NoError)
    ELSE IF competitor.MissesToPenalize = 0
    THEN Ret(Put(sim, [competitor EXCEPT !.Status = StatusStarted]), NoError)
    ELSE Ret(Put(sim, [competitor EXCEPT
                           !.Status = StatusPenalized,
                           !.PenaltyStartTime = event.Timestamp]),
             NoError)

\* A faulty HandleLeavePenaltyLaps: a negative duration is added too.
HandleLeavePenaltyLapsSigned(sim, competitor, event) ==
    IF competitor.Status # StatusPenalized /\ IsZero(competitor.PenaltyStartTime)
    THEN Ret(sim, NoError)
    ELSE LET penaltyDuration == Sub(event.Timestamp, competitor.PenaltyStartTime)
             timed == ~IsZero(competitor.PenaltyStartTime)
         IN  Ret(Put(sim, [competitor EXCEPT
                               !.TotalPenaltyTime =
                                   IF timed THEN @ + penaltyDuration ELSE @,
                               !.PenaltyStartTime = ZeroTime,
                               !.TotalPenaltyLaps = @ + competitor.MissesToPenalize,
                               !.MissesToPenalize = 0,
                               !.Status = StatusStarted]),
                 NoError)

HandleLeavePenaltyLaps(sim, competitor, event) ==
    IF competitor.Status # StatusPenalized /\ IsZero(competitor.PenaltyStartTime)
    THEN Ret(sim, NoError)
    ELSE LET penaltyDuration == Sub(event.Timestamp, competitor.PenaltyStartTime)
             timed == ~IsZero(competitor.PenaltyStartTime)
         IN  Ret(Put(sim, [competitor EXCEPT
                               !.TotalPenaltyTime =
                                   IF timed /\ penaltyDuration >= 0
                                   THEN @ + penaltyDuration ELSE @,
                               !.PenaltyStartTime = ZeroTime,
                               !.TotalPenaltyLaps = @ + competitor.MissesToPenalize,
                               !.MissesToPenalize = 0,
                               !.Status = StatusStarted]),
                 NoError)

\* LapDetails grown with zero entries to hold index currentLap.
GrowLapDetails(lapDetails, currentLap) ==
    IF Len(lapDetails) < currentLap
    THEN lapDetails \o [i \in 1..(currentLap - Len(lapDetails)) |-> NoLapDetail]
    ELSE lapDetails

PanicIndexOutOfRange == "panic: index out of range"

\* A faulty HandleEndLap: the competitor finishes one lap late.
HandleEndLapPastLast(sim, competitor, event) ==
    LET lapDuration == Sub(event.Timestamp, competitor.CurrentLapStartTime)
        lapSpeed == CalculateSpeed(sim.Config.LapLen, lapDuration)
        grown == GrowLapDetails(competitor.LapDetails, competitor.CurrentLap)
        stored == [competitor EXCEPT
                       !.LapDetails = [grown EXCEPT ![competitor.CurrentLap] =
                                           [Duration |-> lapDuration,
                                            Speed |-> lapSpeed]]]
    IN  IF competitor.CurrentLap - 1 < 0 \/ competitor.CurrentLap - 1 >= Len(grown)
        THEN Ret(sim, Error(PanicIndexOutOfRange, competitor.CurrentLap - 1,
                            competitor.ID))
        ELSE IF competitor.CurrentLap > sim.Config.Laps
        THEN Ret(FinishCompetitor(Put(sim, stored), competitor.ID, event.Timestamp),
                 NoError)
        ELSE Ret(Put(sim, [stored EXCEPT
                               !.CurrentLap = @ + 1,
                               !.CurrentLapStartTime = event.Timestamp]),
                 NoError)

HandleEndLap(sim, competitor, event) ==
    LET lapDuration == Sub(event.Timestamp, competitor.CurrentLapStartTime)
        lapSpeed == CalculateSpeed(sim.Config.LapLen, lapDuration)
        grown == GrowLapDetails(competitor.LapDetails, competitor.CurrentLap)
        stored == [competitor EXCEPT
                       !.LapDetails = [grown EXCEPT ![competitor.CurrentLap] =
                                           [Duration |-> lapDuration,
                                            Speed |-> lapSpeed]]]
    IN  IF competitor.CurrentLap - 1 < 0 \/ competitor.CurrentLap - 1 >= Len(grown)
        THEN Ret(sim, Error(PanicIndexOutOfRange, competitor.CurrentLap - 1,
                            competitor.ID))
        ELSE IF competitor.CurrentLap >= sim.Config.Laps
        THEN Ret(FinishCompetitor(Put(sim, stored), competitor.ID, event.Timestamp),
                 NoError)
        ELSE Ret(Put(sim, [stored EXCEPT
                               !.CurrentLap = @ + 1,
                               !.CurrentLapStartTime = event.Timestamp]),
                 NoError)

HandleCannotContinue(sim, competitor, event) ==
    IF competitor.Status \notin {StatusFinished, StatusNotStarted, StatusDisqualified}
    THEN Ret(Put(sim, [competitor EXCEPT
                           !.Status = StatusNotFinished,
                           !.FinishTime = event.Timestamp,
                           !.DisqualificationReason =
                               IF Len(event.ExtraParameters) > 0
                               THEN event.ExtraParameters
                               ELSE Words(<<"Reason", "not", "specified">>),
                           !.PenaltyDetails = PenaltySummary(sim, competitor)]),
             NoError)
    ELSE Ret(sim, NoError)

\* A faulty ProcessEvent: the narration line of the event is appended after
\* the event was handled.
ProcessEventNarratesLast(sim, event) ==
    LET handled ==
            LET logged == [sim EXCEPT
                               !.CurrentTime = event.Timestamp,
                               !.Events = Append(@, event)]
                competitorExists == event.CompetitorID \in DOMAIN sim.Competitors
            IN  IF event.ID = Register
                THEN IF competitorExists THEN Ret(logged, NoError)
                     ELSE Ret(Put(logged, NewCompetitor(event.CompetitorID, event.Timestamp)),
                              NoError)
                ELSE IF ~competitorExists
                THEN Ret(logged, Error("event for unregistered competitor", event.ID,
                                       event.CompetitorID))
                ELSE LET old == sim.Competitors[event.CompetitorID]
                         competitor == IF event.ID # SetStartTime
                                       THEN [old EXCEPT !.LastEventTime = event.Timestamp]
                                       ELSE old
                         s == Put(logged, competitor)
                     IN  CASE event.ID = SetStartTime -> HandleSetStartTime(s, competitor, event)
                           [] event.ID = OnStartLine -> HandleOnStartLine(s, competitor, event)
                           [] event.ID = Started -> HandleStarted(s, competitor, event)
                           [] event.ID = EnterFiringRange ->
                                  HandleEnterFiringRange(s, competitor, event)
                           [] event.ID = HitTarget -> HandleHitTarget(s, competitor, event)
                           [] event.ID = LeaveFiringRange ->
                                  HandleLeaveFiringRange(s, competitor, event)
                           [] event.ID = EnterPenaltyLaps ->
                                  HandleEnterPenaltyLaps(s, competitor, event)
                           [] event.ID = LeavePenaltyLaps ->
                                  HandleLeavePenaltyLaps(s, competitor, event)
                           [] event.ID = EndLap -> HandleEndLap(s, competitor, event)
                           [] event.ID = CannotContinue ->
                                  HandleCannotContinue(s, competitor, event)
                           [] OTHER -> Ret(s, NoError)
    IN  Ret([handled.sim EXCEPT
                 !.OutputLog = IF event.IsIncoming
                               THEN Append(@, EventString(event)) ELSE @],
            handled.err)

\* Simulator.ProcessEvent
ProcessEvent(sim, event) ==
    LET logged == [sim EXCEPT
                       !.CurrentTime = event.Timestamp,
                       !.Events = Append(@, event),
                       !.OutputLog = IF event.IsIncoming
                                     THEN Append(@, EventString(event)) ELSE @]
        competitorExists == event.CompetitorID \in DOMAIN sim.Competitors
    IN  IF event.ID = Register
        THEN IF competitorExists THEN Ret(logged, NoError)
             ELSE Ret(Put(logged, NewCompetitor(event.CompetitorID, event.Timestamp)),
                      NoError)
        ELSE IF ~competitorExists
        THEN Ret(logged, Error("event for unregistered competitor", event.ID,
                               event.CompetitorID))
        ELSE LET old == sim.Competitors[event.CompetitorID]
                 competitor == IF event.ID # SetStartTime
                               THEN [old EXCEPT !.LastEventTime = event.Timestamp]
                               ELSE old
                 s == Put(logged, competitor)
             IN  CASE event.ID = SetStartTime -> HandleSetStartTime(s, competitor, event)
                   [] event.ID = OnStartLine -> HandleOnStartLine(s, competitor, event)
                   [] event.ID = Started -> HandleStarted(s, competitor, event)
                   [] event.ID = EnterFiringRange ->
                          HandleEnterFiringRange(s, competitor, event)
                   [] event.ID = HitTarget -> HandleHitTarget(s, competitor, event)
                   [] event.ID = LeaveFiringRange ->
                          HandleLeaveFiringRange(s, competitor, event)
                   [] event.ID = EnterPenaltyLaps ->
                          HandleEnterPenaltyLaps(s, competitor, event)
                   [] event.ID = LeavePenaltyLaps ->
                          HandleLeavePenaltyLaps(s, competitor, event)
                   [] event.ID = EndLap -> HandleEndLap(s, competitor, event)
                   [] event.ID = CannotContinue ->
                          HandleCannotContinue(s, competitor, event)
                   [] OTHER -> Ret(s, NoError)

\* The sequences that list every element of the finite set S once: the orders
\* in which a range over a Go map may visit its keys.
Orders(S) ==
    {o \in [1..Cardinality(S) -> S] : \A i, j \in 1..Cardinality(S) :
                                          o[i] = o[j] => i = j}

\* A faulty loop body: the scheduled start time is not tested.
CheckOneForNotStartedUnscheduled(sim, id) ==
    LET competitor == sim.Competitors[id]
        startDeadline == competitor.ScheduledStartTime + sim.Config.ParsedStartDelta
    IN  IF /\ competitor.Status \in {StatusRegistered, StatusReadyToStart}
           /\ IsZero(competitor.ActualStartTime)
           /\ After(sim.CurrentTime, startDeadline)
        THEN DisqualifyCompetitor(sim, id, startDeadline, ReasonNotStarted)
        ELSE sim

\* The body of the loop of CheckForNotStarted for one competitor.
CheckOneForNotStarted(sim, id) ==
    LET competitor == sim.Competitors[id]
        startDeadline == competitor.ScheduledStartTime + sim.Config.ParsedStartDelta
    IN  IF /\ competitor.Status \in {StatusRegistered, StatusReadyToStart}
           /\ IsZero(competitor.ActualStartTime)
           /\ ~IsZero(competitor.ScheduledStartTime)
           /\ After(sim.CurrentTime, startDeadline)
           /\ competitor.Status \notin {StatusNotFinished, StatusDisqualified}
        THEN DisqualifyCompetitor(sim, id, startDeadline, ReasonNotStarted)
        ELSE sim

\* Simulator.CheckForNotStarted, the map visited in this order.
RECURSIVE CheckForNotStarted(_, _)
CheckForNotStarted(sim, order) ==
    IF order = <<>> THEN sim
    ELSE CheckForNotStarted(CheckOneForNotStarted(sim, Head(order)), Tail(order))

\* ------------------------------------------------------------------ ranking
StatusRank(status) ==
    CASE status = StatusNotFinished -> 1
      [] status = StatusNotStarted -> 2
      [] status = StatusDisqualified -> 3
      [] OTHER -> 4

\* The less function GetSortedCompetitors hands to sort.SliceStable.
Less(c1, c2) ==
    LET c1IsFinished == c1.Status = StatusFinished
        c2IsFinished == c2.Status = StatusFinished
        t1 == CalculateTotalTime(c1)
        t2 == CalculateTotalTime(c2)
    IN  IF c1IsFinished /\ ~c2IsFinished THEN TRUE
        ELSE IF ~c1IsFinished /\ c2IsFinished THEN FALSE
        ELSE IF c1IsFinished /\ c2IsFinished
        THEN IF t1.ok /\ t2.ok
             THEN IF t1.v # t2.v THEN t1.v < t2.v ELSE c1.ID < c2.ID
             ELSE IF t1.ok /\ ~t2.ok THEN TRUE
             ELSE IF ~t1.ok /\ t2.ok THEN FALSE
             ELSE c1.ID < c2.ID
        ELSE IF StatusRank(c1.Status) # StatusRank(c2.Status)
        THEN StatusRank(c1.Status) < StatusRank(c2.Status)
        ELSE c1.ID < c2.ID

\* One step of a stable insertion sort: x moves left past every element it is
\* less than.
RECURSIVE InsertStable(_, _)
InsertStable(sorted, x) ==
    IF sorted = <<>> THEN <<x>>
    ELSE IF Less(x, sorted[Len(sorted)])
    THEN Append(InsertStable(SubSeq(sorted, 1, Len(sorted) - 1), x),
                sorted[Len(sorted)])
    ELSE Append(sorted, x)

RECURSIVE SliceStable(_)
SliceStable(list) ==
    IF list = <<>> THEN <<>>
    ELSE InsertStable(SliceStable(SubSeq(list, 1, Len(list) - 1)), list[Len(list)])

\* Simulator.GetSortedCompetitors, the map visited in this order.
GetSortedCompetitors(sim, order) ==
    SliceStable([i \in 1..Len(order) |-> sim.Competitors[order[i]]])

\* ------------------------------------------------------------------ report
\* fmt.Sprintf("%.3f", speed), in thousandths.
FormatSpeed(speed) ==
    LET q == speed.num \div speed.den
        r == speed.num % speed.den
    IN  q * 1000 + (r * 1000 + speed.den \div 2) \div speed.den

EmptyPair == [empty |-> TRUE, time |-> FormatDuration(0), speed |-> 0]
Pair(duration, speed) ==
    [empty |-> FALSE, time |-> FormatDuration(duration), speed |-> FormatSpeed(speed)]

\* Competitor.FinalStatusString
FinalStatusString(competitor) ==
    CASE competitor.Status = StatusFinished ->
             IF CalculateTotalTime(competitor).ok
             THEN <<FormatDuration(CalculateTotalTime(competitor).v)>>
             ELSE Words(<<"[Error", "Calculating", "Time]">>)
      [] competitor.Status = StatusNotFinished -> Words(<<"[NotFinished]">>)
      [] competitor.Status = StatusNotStarted -> Words(<<"[NotStarted]">>)
      [] competitor.Status = StatusDisqualified ->
             Words(<<"[Disqualified">>) \o competitor.DisqualificationReason
                 \o Words(<<"]">>)
      [] OTHER -> Words(<<"[In", "Progress]">>)

formatLapDetails(lapDetails, status, currentLap) ==
    LET numLapsCompleted == Len(lapDetails)
        totalExpectedLapEntries ==
            IF status = StatusNotStarted THEN 0
            ELSE IF status # StatusFinished /\ currentLap > numLapsCompleted
            THEN currentLap
            ELSE numLapsCompleted
    IN  [i \in 1..totalExpectedLapEntries |->
             IF i <= Len(lapDetails) /\ lapDetails[i].Duration > 0
             THEN Pair(lapDetails[i].Duration, lapDetails[i].Speed)
             ELSE EmptyPair]

formatPenaltyDetails(penalty, hadPenalties) ==
    IF ~hadPenalties THEN EmptyPair
    ELSE IF penalty.TotalDuration <= 0 THEN Pair(0, ZeroSpeed)
    ELSE Pair(penalty.TotalDuration, penalty.AverageSpeed)

formatCompetitorResult(competitor) ==
    [finalStatus |-> FinalStatusString(competitor),
     id |-> competitor.ID,
     lapDetails |-> formatLapDetails(competitor.LapDetails, competitor.Status,
                                     competitor.CurrentLap),
     penaltyDetails |-> formatPenaltyDetails(competitor.PenaltyDetails,
                                             competitor.TotalPenaltyLaps > 0),
     shooting |-> <<competitor.TotalHits, competitor.TotalShots>>]

GenerateReport(competitors) ==
    [i \in 1..Len(competitors) |-> formatCompetitorResult(competitors[i])]

\* ------------------------------------------------------------------ main
\* config.LoadConfiguration of the decoded JSON document.
LoadConfiguration(raw) ==
    LET start == ParseTimeFromString(raw.Start)
        delta == ParseDurationFromString(raw.StartDelta)
    IN  IF ~start.ok THEN [ok |-> FALSE, cfg |-> NoConfig,
                           err |-> Error("error parsing start time", 0, 0)]
        ELSE IF ~delta.ok THEN [ok |-> FALSE, cfg |-> NoConfig,
                                err |-> Error("error parsing start delta", 0, 0)]
        ELSE IF raw.Laps <= 0 \/ raw.LapLen <= 0 \/ raw.PenaltyLen <= 0
                \/ raw.FiringLines <= 0
        THEN [ok |-> FALSE, cfg |-> NoConfig,
              err |-> Error("incorrect values in configuration", 0, 0)]
        ELSE [ok |-> TRUE,
              cfg |-> [Laps |-> raw.Laps, LapLen |-> raw.LapLen,
                       PenaltyLen |-> raw.PenaltyLen,
                       FiringLines |-> raw.FiringLines,
                       Start |-> raw.Start, StartDelta |-> raw.StartDelta,
                       ParsedStart |-> start.v, ParsedStartDelta |-> delta.v],
              err |-> NoError]

RawConfig(laps, lapLen, penaltyLen, firingLines, start, startDelta) ==
    [Laps |-> laps, LapLen |-> lapLen, PenaltyLen |-> penaltyLen,
     FiringLines |-> firingLines, Start |-> start, StartDelta |-> startDelta]

\* ------------------------------------------------------------------ inputs
Line(stamp, id, competitorID, extra) ==
    <<stamp, IntTok(id), IntTok(competitorID)>> \o extra

Stamp(k) == TimeTok(10, 0, 2 * k, 0)
CompetitorIDs == 1..MaxCompetitors
\* The kinds of the event lines: the incoming kinds, the kind after them, and
\* the two derived kinds.
EventKinds == Register..(CannotContinue + 1) \cup {Disqualified, Finished}

ExtrasFor(id) ==
    CASE id = SetStartTime -> {<<TimeTok(10, 0, 0, 0)>>, <<>>, Words(<<"soon">>)}
      [] id = EnterFiringRange ->
             {<<IntTok(1)>>, <<IntTok(2)>>, <<>>, Words(<<"first">>)}
      [] id = HitTarget -> {<<IntTok(1)>>}
      [] id = CannotContinue -> {<<>>, Words(<<"Lost">>)}
      [] OTHER -> {<<>>}

\* The lines a file may hold after its opening lines: every event line over
\* the small alphabets, the empty line, a line of two fields and a line whose
\* time stamp does not parse.
Lines ==
    UNION {{Line(Stamp(k), id, c, x) : x \in ExtrasFor(id)} :
               k \in 0..MaxTick, id \in EventKinds, c \in CompetitorIDs}
    \cup {<<>>, <<Stamp(0), IntTok(Register)>>,
          Line(WordTok("noon"), Register, 1, <<>>)}

\* The configuration documents of Spec: one second of start tolerance.
ConfigFiles ==
    {RawConfig(l, 3500, p, f, TimeTok(10, 0, 0, 0), TimeTok(0, 0, 1, 0)) :
         l \in {0, 2}, p \in {0, 150}, f \in {0, 1}}

\* The opening lines of the event files of Spec.
OpeningLines ==
    {<<>>,
     <<Line(Stamp(0), Register, 1, <<>>)>>,
     <<Line(Stamp(0), Register, 1, <<>>),
       Line(Stamp(0), SetStartTime, 1, <<TimeTok(10, 0, 0, 0)>>)>>}

\* A configuration of two firing lines, read with the event file of a
\* competitor that has shot at the first of them.
TwoLinesInput ==
    <<RawConfig(2, 3500, 150, 2, TimeTok(10, 0, 0, 0), TimeTok(0, 0, 1, 0)),
      <<Line(Stamp(0), Register, 1, <<>>),
        Line(Stamp(0), EnterFiringRange, 1, <<IntTok(1)>>),
        Line(Stamp(0), LeaveFiringRange, 1, <<>>)>>>>

\* ------------------------------------------------------------------ actions
\* The state after construction, for a set of inputs <<configuration document,
\* opening lines of the event file>> and a number of further lines.
InitWith(inputs, free) ==
    /\ pc = "load"
    /\ \E input \in inputs : configFile = input[1] /\ file = input[2]
    /\ cfg = NoConfig
    /\ budget = free
    /\ lineNumber = 0
    /\ previousTimestamp = ZeroTime
    /\ simulator = NewSimulator(NoConfig)
    /\ err = NoError
    /\ outputLogFile = <<>>
    /\ outputReportFile = <<>>
    /\ created = {}
    /\ codec = NoCodec

Init == InitWith((ConfigFiles \X OpeningLines) \cup {TwoLinesInput}, MaxLines)

\* main: the configuration loads and the simulator is created.
LoadOk ==
    /\ pc = "load"
    /\ LoadConfiguration(configFile).ok
    /\ cfg' = LoadConfiguration(configFile).cfg
    /\ simulator' = NewSimulator(cfg')
    /\ pc' = "scan"
    /\ UNCHANGED <<configFile, file, budget, lineNumber, previousTimestamp, err,
                   outputLogFile, outputReportFile,
                   created, codec>>

\* main: the configuration does not load, os.Exit(1).
LoadFail ==
    /\ pc = "load"
    /\ ~LoadConfiguration(configFile).ok
    /\ err' = LoadConfiguration(configFile).err
    /\ pc' = "exit1"
    /\ UNCHANGED <<configFile, cfg, file, budget, lineNumber, previousTimestamp,
                   simulator, outputLogFile, outputReportFile,
                   created, codec>>

\* The lines scanner.Scan may return next: the next line of the file, which is
\* any line once the opening lines are read.
NextLines ==
    IF lineNumber < Len(file) THEN {file[lineNumber + 1]}
    ELSE IF budget > 0 THEN Lines
    ELSE {}

\* scanner.Scan returned this line.
Scan(line) ==
    /\ pc = "scan"
    /\ line \in NextLines
    /\ lineNumber' = lineNumber + 1
    /\ IF lineNumber < Len(file) THEN UNCHANGED <<file, budget>>
       ELSE file' = Append(file, line) /\ budget' = budget - 1
    /\ UNCHANGED <<configFile, cfg, outputLogFile, outputReportFile,
                   created, codec>>

\* A faulty order test: an equal time stamp is rejected too.
OutOfOrderOrEqual(event) ==
    ~IsZero(previousTimestamp) /\ ~After(event.Timestamp, previousTimestamp)

\* The zero previousTimestamp of LoadEventsFromFile is the unset one.
OutOfOrder(event) ==
    ~IsZero(previousTimestamp) /\ Before(event.Timestamp, previousTimestamp)

IsPanic(e) == e.msg = PanicIndexOutOfRange

\* LoadEventsFromFile: an empty line is skipped.
ScanEmptyLine ==
    \E line \in NextLines :
        /\ Scan(line)
        /\ line = <<>>
        /\ UNCHANGED <<previousTimestamp, simulator, err, pc>>

\* A faulty main: after the error of a line that does not parse, the log of
\* the events applied so far is still written.
ScanParseErrorThenLog ==
    \E line \in NextLines :
        /\ pc = "scan"
        /\ lineNumber' = lineNumber + 1
        /\ IF lineNumber < Len(file) THEN UNCHANGED <<file, budget>>
           ELSE file' = Append(file, line) /\ budget' = budget - 1
        /\ line # <<>>
        /\ ~ParseEventFromString(line).ok
        /\ err' = Error("string parsing error at line", lineNumber', 0)
        /\ pc' = "exit1"
        /\ outputLogFile' = simulator.OutputLog
        /\ created' = {"log"}
        /\ UNCHANGED <<configFile, cfg, outputReportFile, previousTimestamp,
                       simulator, codec>>

\* LoadEventsFromFile: the line does not parse.
ScanParseError ==
    \E line \in NextLines :
        /\ Scan(line)
        /\ line # <<>>
        /\ ~ParseEventFromString(line).ok
        /\ err' = Error("string parsing error at line", lineNumber', 0)
        /\ pc' = "exit1"
        /\ UNCHANGED <<previousTimestamp, simulator>>

\* LoadEventsFromFile: the time stamp is before the previous one.
ScanOrderError ==
    \E line \in NextLines :
        /\ Scan(line)
        /\ line # <<>>
        /\ ParseEventFromString(line).ok
        /\ OutOfOrder(ParseEventFromString(line).event)
        /\ err' = Error("time order of events is broken at line", lineNumber', 0)
        /\ pc' = "exit1"
        /\ UNCHANGED <<previousTimestamp, simulator>>

\* LoadEventsFromFile: ProcessEvent applies the event of the line.
ScanEvent ==
    \E line \in NextLines :
        LET event == ParseEventFromString(line).event
            r == ProcessEvent(simulator, event)
        IN  /\ Scan(line)
            /\ line # <<>>
            /\ ParseEventFromString(line).ok
            /\ ~OutOfOrder(event)
            /\ r.err = NoError
            /\ previousTimestamp' = event.Timestamp
            /\ simulator' = r.sim
            /\ UNCHANGED <<err, pc>>

\* A faulty loop: the error of ProcessEvent is dropped and the scan goes on.
ScanEventErrorIgnored ==
    \E line \in NextLines :
        LET event == ParseEventFromString(line).event
            r == ProcessEvent(simulator, event)
        IN  /\ Scan(line)
            /\ line # <<>>
            /\ ParseEventFromString(line).ok
            /\ ~OutOfOrder(event)
            /\ r.err # NoError
            /\ ~IsPanic(r.err)
            /\ previousTimestamp' = event.Timestamp
            /\ simulator' = r.sim
            /\ UNCHANGED <<err, pc>>

\* LoadEventsFromFile: ProcessEvent returns an error.
ScanEventError ==
    \E line \in NextLines :
        LET event == ParseEventFromString(line).event
            r == ProcessEvent(simulator, event)
        IN  /\ Scan(line)
            /\ line # <<>>
            /\ ParseEventFromString(line).ok
            /\ ~OutOfOrder(event)
            /\ r.err # NoError
            /\ ~IsPanic(r.err)
            /\ previousTimestamp' = event.Timestamp
            /\ simulator' = r.sim
            /\ err' = r.err
            /\ pc' = "exit1"

\* LoadEventsFromFile: ProcessEvent panics and the program dies.
ScanEventPanic ==
    \E line \in NextLines :
        LET event == ParseEventFromString(line).event
            r == ProcessEvent(simulator, event)
        IN  /\ Scan(line)
            /\ line # <<>>
            /\ ParseEventFromString(line).ok
            /\ ~OutOfOrder(event)
            /\ IsPanic(r.err)
            /\ previousTimestamp' = event.Timestamp
            /\ simulator' = r.sim
            /\ err' = r.err
            /\ pc' = "panic"

\* LoadEventsFromFile: the file ends and CheckForNotStarted runs.
ScanEnd ==
    /\ pc = "scan"
    /\ lineNumber = Len(file)
    /\ \E order \in Orders(DOMAIN simulator.Competitors) :
           simulator' = CheckForNotStarted(simulator, order)
    /\ pc' = "write"
    /\ UNCHANGED <<configFile, cfg, file, budget, lineNumber, previousTimestamp,
                   err, outputLogFile, outputReportFile,
                   created, codec>>

\* main: the log and the report are written.
WriteOutputs ==
    /\ pc = "write"
    /\ outputLogFile' = simulator.OutputLog
    /\ \E order \in Orders(DOMAIN simulator.Competitors) :
           outputReportFile' = GenerateReport(GetSortedCompetitors(simulator, order))
    /\ created' = {"log", "report"}
    /\ UNCHANGED codec
    /\ pc' = "exit0"
    /\ UNCHANGED <<configFile, cfg, file, budget, lineNumber, previousTimestamp,
                   simulator, err>>

Next ==
    \/ LoadOk
    \/ LoadFail
    \/ ScanEmptyLine
    \/ ScanParseError
    \/ ScanOrderError
    \/ ScanEvent
    \/ ScanEventError
    \/ ScanEventPanic
    \/ ScanEnd
    \/ WriteOutputs

Spec == Init /\ [][Next]_vars

\* ------------------------------------------------------------------ races
\* SpecRace reads whole race files: the scenario of the specification with 0
\* to 5 hits and an on-time or late start, and the runs of one competitor over
\* every configured lap and firing line, each followed by at most one further
\* line.
MaxLaps == 2
MaxFiringLines == 2

At(h, m, s) == TimeTok(h, m, s, 0)

ScenarioConfig == RawConfig(2, 3500, 150, 1, At(10, 0, 0), At(0, 0, 30))

ScenarioFile(hits, startSecond) ==
    <<Line(At(9, 59, 0), Register, 1, <<>>),
      Line(At(9, 59, 1), SetStartTime, 1, <<At(10, 0, 0)>>),
      Line(At(9, 59, 59), OnStartLine, 1, <<>>),
      Line(At(10, 0, startSecond), Started, 1, <<>>),
      Line(At(10, 5, 0), EnterFiringRange, 1, <<IntTok(1)>>)>>
    \o [i \in 1..hits |-> Line(At(10, 5, 10), HitTarget, 1, <<IntTok(i)>>)]
    \o <<Line(At(10, 5, 30), LeaveFiringRange, 1, <<>>),
         Line(At(10, 6, 0), EnterPenaltyLaps, 1, <<>>),
         Line(At(10, 6, 20), LeavePenaltyLaps, 1, <<>>),
         Line(At(10, 10, 0), EndLap, 1, <<>>),
         Line(At(10, 20, 0), EndLap, 1, <<>>)>>

Step(id, extra) == [id |-> id, extra |-> extra]

Shooting(f, hits) ==
    <<Step(EnterFiringRange, <<IntTok(f)>>)>>
    \o [i \in 1..hits |-> Step(HitTarget, <<IntTok(i)>>)]
    \o <<Step(LeaveFiringRange, <<>>)>>

\* The firing lines f..firingLines shot during this lap.
RECURSIVE ShootingOfLap(_, _, _, _, _)
ShootingOfLap(f, firingLines, lap, lapOf, hits) ==
    IF f > firingLines THEN <<>>
    ELSE (IF lapOf[f] = lap THEN Shooting(f, hits[f]) ELSE <<>>)
         \o ShootingOfLap(f + 1, firingLines, lap, lapOf, hits)

RECURSIVE Course(_, _, _, _, _)
Course(lap, laps, firingLines, lapOf, hits) ==
    IF lap > laps THEN <<>>
    ELSE ShootingOfLap(1, firingLines, lap, lapOf, hits)
         \o <<Step(EndLap, <<>>)>>
         \o Course(lap + 1, laps, firingLines, lapOf, hits)

\* The run of competitor 1: registration, a start on time, firing line f shot
\* during lap lapOf[f] with hits[f] hits, and every lap ended; one line every
\* ten seconds from 10:00:00.
RunFile(laps, firingLines, lapOf, hits) ==
    LET steps == <<Step(Started, <<>>)>> \o Course(1, laps, firingLines, lapOf, hits)
    IN  <<Line(At(9, 59, 0), Register, 1, <<>>),
          Line(At(9, 59, 1), SetStartTime, 1, <<At(10, 0, 0)>>)>>
        \o [i \in 1..Len(steps) |->
                Line(FormatTime(36000000 + (i - 1) * 10000), steps[i].id, 1,
                     steps[i].extra)]

RunConfig(laps, firingLines) ==
    RawConfig(laps, 3500, 150, firingLines, At(10, 0, 0), At(0, 0, 30))

\* The assignments of the firing lines to laps, in order.
LapsOfLines(laps, firingLines) ==
    {lapOf \in [1..firingLines -> 1..laps] :
         \A f, g \in 1..firingLines : f <= g => lapOf[f] <= lapOf[g]}

RunInputs ==
    UNION {{<<RunConfig(laps, firingLines), RunFile(laps, firingLines, lapOf, hits)>> :
                lapOf \in LapsOfLines(laps, firingLines),
                hits \in [1..firingLines -> 4..5]} :
               laps \in 1..MaxLaps, firingLines \in 1..MaxFiringLines}

ScenarioInputs ==
    {<<RawConfig(2, 3500, p, 1, At(10, 0, 0), At(0, 0, 30)), ScenarioFile(hits, s)>> :
         p \in {0, 150}, hits \in 0..5, s \in {0, 31}}

\* The line that may follow a race: any event line at 10:30:00, an empty line,
\* a line that does not parse, or a line before the race.
TailLines ==
    UNION {{Line(At(10, 30, 0), id, c, x) : x \in ExtrasFor(id)} :
               id \in EventKinds, c \in CompetitorIDs}
    \cup {<<>>, <<At(10, 30, 0), IntTok(Register)>>,
          Line(At(9, 0, 0), EndLap, 1, <<>>)}

Tails == {<<>>} \cup {<<line>> : line \in TailLines}

\* The scenario with the penalty laps left at the moment they were entered.
PenaltyAtOnceFile(hits) ==
    LET lines == ScenarioFile(hits, 0)
    IN  [lines EXCEPT ![Len(lines) - 2] =
             Line(At(10, 6, 0), LeavePenaltyLaps, 1, <<>>)]

PenaltyAtOnceInputs == {<<ScenarioConfig, PenaltyAtOnceFile(hits)>> : hits \in 0..5}

\* The clean run of one lap and one firing line followed by two more event
\* lines of competitor 1 at 10:30:00.
LinesAfter(c) ==
    UNION {{Line(At(10, 30, 0), id, c, x) : x \in ExtrasFor(id)} : id \in EventKinds}

AfterFinishInputs ==
    {<<RunConfig(1, 1), RunFile(1, 1, <<1>>, <<5>>) \o <<first, second>>>> :
         first \in LinesAfter(1), second \in LinesAfter(1)}

RaceInputs ==
    {<<input[1], input[2] \o tail>> :
         input \in RunInputs \cup ScenarioInputs \cup PenaltyAtOnceInputs,
         tail \in Tails}
    \cup AfterFinishInputs

InitRace == InitWith(RaceInputs, 0)

SpecRace == InitRace /\ [][Next]_vars

\* ------------------------------------------------------------------ ranking inputs
\* SpecSort applies GetSortedCompetitors and GenerateReport to every map of up
\* to MaxRanked competitors drawn from the statuses and times below.
MaxRanked == 3

Ranked(id, status, scheduled, start, finish) ==
    [NewCompetitor(id, 35940000) EXCEPT
         !.Status = status, !.ScheduledStartTime = scheduled,
         !.ActualStartTime = start, !.FinishTime = finish,
         !.CurrentLap = IF IsZero(start) THEN 0 ELSE 1,
         !.CurrentLapStartTime = start]

\* A finished competitor has started and then finished; the others below have
\* not started, or started and stopped.
RankedCompetitors(id) ==
    {Ranked(id, StatusFinished, scheduled, start, finish) :
         scheduled \in {ZeroTime, 36000000},
         start \in {36000000, 36001000},
         finish \in {36002000, 36003000}}
    \cup {Ranked(id, status, 36000000, 36000000, 36002000) :
              status \in {StatusNotFinished, StatusDisqualified, StatusStarted}}
    \cup {Ranked(id, status, 36000000, ZeroTime, 36001000) :
              status \in {StatusNotStarted}}
    \cup {Ranked(id, status, ZeroTime, ZeroTime, ZeroTime) :
              status \in {StatusRegistered}}

RankedMaps ==
    UNION {{m \in [1..n -> UNION {RankedCompetitors(id) : id \in 1..n}] :
                \A id \in 1..n : m[id].ID = id} : n \in 0..MaxRanked}

InitSort ==
    /\ pc = "write"
    /\ configFile = ScenarioConfig
    /\ cfg = LoadConfiguration(ScenarioConfig).cfg
    /\ file = <<>>
    /\ budget = 0
    /\ lineNumber = 0
    /\ previousTimestamp = ZeroTime
    /\ \E m \in RankedMaps :
           simulator = [NewSimulator(cfg) EXCEPT !.Competitors = m]
    /\ err = NoError
    /\ outputLogFile = <<>>
    /\ outputReportFile = <<>>
    /\ created = {}
    /\ codec = NoCodec

SpecSort == InitSort /\ [][WriteOutputs]_vars

\* ------------------------------------------------------------------ codec
\* SpecCodec formats and parses durations: from a duration, FormatDuration
\* then ParseDurationFromString; from a string, ParseDurationFromString then
\* FormatDuration when the string parses.
MaxCodecHours == 1

DurationSamples ==
    {((h * 60 + m) * 60 + s) * 1000 + ms :
         h \in 0..MaxCodecHours \cup {23, 100}, m \in {0, 1, 59},
         s \in {0, 2, 59}, ms \in {0, 5, 62, 500, 999}}

TextSamples ==
    {<<"0", "0", ":", "0", "1", ":", "0", "2", ".", "5", "0", "0">>,
     <<"0", "0", ":", "0", "0", ":", "3", "0">>,
     <<"1", ":", "2", ":", "3">>,
     <<"0", "0", ":", "6", "1", ":", "0", "0", ".", "5">>,
     <<"1", ".", "5", ":", "0", "0", ":", "0", "0">>,
     <<"-", "0", "0", ":", "0", "0", ":", "0", "1", ".", "0", "0", "0">>,
     <<"0", "0", ":", "-", "0", "1", ":", "0", "0">>,
     <<"0", "0", ":", "0", "1">>,
     <<"0", "0", ":", "0", "1", ":", "0", "2", ":", "5", "0", "0">>,
     <<"0", "0", ":", ":", "0", "2">>,
     <<"0", "0", ":", "0", "1", ":", "0", ".", "2", ".", "5">>,
     <<"0", "0", ":", "0", "1", ":", ".">>,
     <<>>}

InitCodec ==
    /\ pc = "codec"
    /\ configFile = ScenarioConfig
    /\ cfg = NoConfig
    /\ file = <<>>
    /\ budget = 0
    /\ lineNumber = 0
    /\ previousTimestamp = ZeroTime
    /\ simulator = NewSimulator(NoConfig)
    /\ err = NoError
    /\ outputLogFile = <<>>
    /\ outputReportFile = <<>>
    /\ created = {}
    /\ \/ \E d \in DurationSamples :
              codec = [NoCodec EXCEPT !.from = "duration", !.dur = d]
       \/ \E t \in TextSamples :
              codec = [NoCodec EXCEPT !.from = "text", !.text = t]

\* FormatDuration is applied to the duration at hand.
CodecFormat ==
    /\ pc = "codec"
    /\ \/ codec.from = "duration" /\ codec.step = 0
          /\ codec' = [codec EXCEPT !.text = FormatDurationText(codec.dur),
                                    !.step = 1]
       \/ codec.from = "text" /\ codec.step = 1 /\ codec.parsed.ok
          /\ codec' = [codec EXCEPT !.out = FormatDurationText(codec.parsed.v),
                                    !.step = 2]
    /\ UNCHANGED <<pc, configFile, cfg, file, budget, lineNumber,
                   previousTimestamp, simulator, err, outputLogFile,
                   outputReportFile, created>>

\* ParseDurationFromString is applied to the string at hand.
CodecParse ==
    /\ pc = "codec"
    /\ \/ codec.from = "duration" /\ codec.step = 1
          /\ codec' = [codec EXCEPT !.parsed = ParseDurationFromText(codec.text),
                                    !.step = 2]
       \/ codec.from = "text" /\ codec.step = 0
          /\ codec' = [codec EXCEPT !.parsed = ParseDurationFromText(codec.text),
                                    !.step = 1]
    /\ UNCHANGED <<pc, configFile, cfg, file, budget, lineNumber,
                   previousTimestamp, simulator, err, outputLogFile,
                   outputReportFile, created>>

NextCodec == CodecFormat \/ CodecParse

SpecCodec == InitCodec /\ [][NextCodec]_vars

\* ------------------------------------------------------------------ claims
Competitors == simulator.Competitors
Events == simulator.Events
OutputLog == simulator.OutputLog
TerminalStatuses ==
    {"Finished", "NotFinished", "NotStarted", "Disqualified"}
\* The run went through every line and the post-pass and wrote its outputs.
Completed == pc = "exit0"
\* The configuration and the whole event file of the run.
RunOf(config, lines) == configFile = config /\ file = lines

\* C1 (as amended): with the scenario's configuration and its eleven events
\* (one hit), competitor 1 ends Finished with both laps 00:10:00.000, total
\* penalty time 00:00:20.000, shooting 1/5, and penalty average speed 30.000:
\* the four penalty laps of 150 m over 20 s.
C1_ScenarioResult ==
    (Completed /\ RunOf(ScenarioConfig, ScenarioFile(1, 0))) =>
        LET c == Competitors[1]
            line == outputReportFile[1]
        IN  /\ c.Status = "Finished"
            /\ Len(c.LapDetails) = 2
            /\ c.LapDetails[1].Duration = 600000
            /\ c.LapDetails[2].Duration = 600000
            /\ c.TotalPenaltyTime = 20000
            /\ c.TotalPenaltyLaps = 4
            /\ c.TotalHits = 1 /\ c.TotalShots = 5
            /\ line.id = 1
            /\ line.lapDetails[1].time = TimeTok(0, 10, 0, 0)
            /\ line.lapDetails[2].time = TimeTok(0, 10, 0, 0)
            /\ line.penaltyDetails = [empty |-> FALSE, time |-> TimeTok(0, 0, 20, 0),
                                      speed |-> 30000]
            /\ line.shooting = <<1, 5>>

C1_ScenarioRan ==
    /\ Completed /\ RunOf(ScenarioConfig, ScenarioFile(1, 0))
    /\ Competitors[1].Status = "Finished"
    /\ Len(outputReportFile) = 1

\* C1 as stated: the same scenario ends with penalty average speed 7.500.
C1_Original ==
    (Completed /\ RunOf(ScenarioConfig, ScenarioFile(1, 0))) =>
        /\ Competitors[1].Status = "Finished"
        /\ Competitors[1].TotalPenaltyTime = 20000
        /\ outputReportFile[1].penaltyDetails.speed = 7500
        /\ outputReportFile[1].shooting = <<1, 5>>

\* C2: once a competitor's status is Finished, NotFinished, NotStarted or
\* Disqualified, every later step leaves that status as it is.
C2_TerminalStatusStays ==
    [][\A id \in DOMAIN Competitors :
           Competitors[id].Status \in TerminalStatuses =>
               simulator'.Competitors[id].Status = Competitors[id].Status]_vars

\* The events of the history that came from a line of the file, and those the
\* engine appended itself.
IsRaw(event) == event.RawLine # <<>>
IsDerived(event, id) == ~IsRaw(event) /\ event.ID = id
Count(seq, Test(_)) == Cardinality({i \in 1..Len(seq) : Test(seq[i])})

\* C3: while no error was returned, the narration log has one line per
\* incoming event applied plus one per derived Finished or Disqualified event
\* the engine appended to the history.
C3_NarrationCount ==
    err = NoError =>
        Len(OutputLog) =
            Count(Events, LAMBDA e : IsRaw(e) /\ e.IsIncoming)
            + Count(Events, LAMBDA e : IsDerived(e, Finished))
            + Count(Events, LAMBDA e : IsDerived(e, Disqualified))

\* A completed run whose history holds a derived Disqualified event and a line
\* of the file that is not narrated.
C3_DerivedAndSilent ==
    /\ Completed
    /\ Count(Events, LAMBDA e : IsDerived(e, Disqualified)) > 0
    /\ Count(Events, LAMBDA e : IsRaw(e) /\ ~e.IsIncoming) > 0
    /\ Len(OutputLog) > 2

\* A Started line followed in the history by the derived disqualification
\* "NotStarted" of the same competitor: the start was late.
LateStartAt(i, id) ==
    /\ i < Len(Events)
    /\ IsRaw(Events[i]) /\ Events[i].ID = Started /\ Events[i].CompetitorID = id
    /\ IsDerived(Events[i + 1], Disqualified)
    /\ Events[i + 1].CompetitorID = id
    /\ Events[i + 1].ExtraParameters = Words(<<"NotStarted">>)

\* C4: a competitor disqualified for a Started event after scheduled start +
\* tolerance has status NotStarted and never status Started.
C4_LateStartNeverStarted ==
    \A id \in DOMAIN Competitors :
        (\E i \in 1..Len(Events) : LateStartAt(i, id)) =>
            Competitors[id].Status = "NotStarted"

AllFive(firingLines) == [f \in 1..firingLines |-> 5]

\* C5: after the last line of a run in which competitor 1 registers, starts on
\* time, shoots every configured firing line in order with 5 hits and ends
\* every configured lap, its status is Finished, it served no penalty lap and
\* its penalty summary in the report is the empty pair.
C5_CleanRunFinishes ==
    \A laps \in 1..MaxLaps, firingLines \in 1..MaxFiringLines :
        \A lapOf \in LapsOfLines(laps, firingLines) :
            ( /\ RunOf(RunConfig(laps, firingLines),
                       RunFile(laps, firingLines, lapOf, AllFive(firingLines)))
              /\ lineNumber = Len(file)
              /\ pc \in {"scan", "write", "exit0"} ) =>
                /\ Competitors[1].Status = "Finished"
                /\ Competitors[1].TotalPenaltyLaps = 0
                /\ Competitors[1].MissesToPenalize = 0
                /\ Competitors[1].TotalShots = 5 * firingLines
                /\ formatCompetitorResult(Competitors[1]).penaltyDetails.empty
                /\ Completed => outputReportFile[1].penaltyDetails.empty

C5_CleanRunReported ==
    /\ Completed
    /\ RunOf(RunConfig(2, 2), RunFile(2, 2, <<1, 2>>, AllFive(2)))
    /\ Competitors[1].Status = "Finished"
    /\ Competitors[1].TotalHits = 10
    /\ outputReportFile[1].penaltyDetails.empty

\* The step reads a line of the file that parses to an event.
LineRead == file'[lineNumber']
EventRead == ParseEventFromString(LineRead).event
ReadsEvent ==
    /\ pc = "scan" /\ lineNumber' = lineNumber + 1
    /\ LineRead # <<>>
    /\ ParseEventFromString(LineRead).ok

\* The time stamp of the last non-empty line among the first n lines.
RECURSIVE LastStamp(_, _)
LastStamp(lines, n) ==
    IF n = 0 THEN ZeroTime
    ELSE IF lines[n] # <<>> THEN ParseTimeFromString(lines[n][1]).v
    ELSE LastStamp(lines, n - 1)

\* The event read is not earlier than the line before it.
InOrder ==
    \/ LastStamp(file, lineNumber) = ZeroTime
    \/ EventRead.Timestamp >= LastStamp(file, lineNumber)

NoPriorRegister(id) ==
    \A i \in 1..Len(Events) :
        ~(Events[i].ID = Register /\ Events[i].CompetitorID = id)

\* C6: an event other than Register for a competitor id with no prior Register
\* event is answered by an error that names the id, no competitor is created,
\* and the run is over: no step follows the abort.
C6_UnregisteredAborts ==
    [][/\ pc # "exit1"
       /\ ( /\ ReadsEvent /\ InOrder
            /\ EventRead.ID # Register
            /\ NoPriorRegister(EventRead.CompetitorID) ) =>
              /\ pc' = "exit1"
              /\ err'.msg = "event for unregistered competitor"
              /\ err'.b = EventRead.CompetitorID
              /\ DOMAIN simulator'.Competitors = DOMAIN Competitors]_vars

\* The run aborted on an event of unregistered competitor 2 while competitor 1
\* is registered and the file could have gone on.
C6_AbortedOnUnregistered ==
    /\ pc = "exit1"
    /\ err.msg = "event for unregistered competitor" /\ err.b = 2
    /\ DOMAIN Competitors = {1}
    /\ budget > 0

OrderMessage == "time order of events is broken at line"

\* C7: a line whose time stamp is strictly before the previous line's aborts
\* the load with an error, the event is not applied and nothing runs after the
\* abort (no later event, no post-pass); a line with an equal or later time
\* stamp is not an ordering error and its event is applied.
C7_OrderingAborts ==
    [][/\ pc = "exit1" => pc' = "exit1" /\ simulator' = simulator
       /\ ReadsEvent =>
              IF InOrder
              THEN /\ err'.msg # OrderMessage
                   /\ Len(simulator'.Events) > Len(Events)
                   /\ simulator'.Events[Len(Events) + 1] = EventRead
              ELSE /\ pc' = "exit1"
                   /\ err'.msg = OrderMessage /\ err'.a = lineNumber'
                   /\ simulator' = simulator]_vars

\* Two events with equal time stamps were applied and the next line, an
\* earlier one, aborted the load.
C7_AbortedAfterEqualStamps ==
    /\ pc = "exit1" /\ err.msg = OrderMessage
    /\ Len(Events) >= 2
    /\ Events[Len(Events)].Timestamp = Events[Len(Events) - 1].Timestamp
    /\ IsRaw(Events[Len(Events)]) /\ IsRaw(Events[Len(Events) - 1])

\* The total race time of the claim and the place of a competitor in the
\* ranking: its group, its time within the finished, its id.
TotalRaceTime(c) ==
    (c.FinishTime - c.ActualStartTime)
    + (IF c.ScheduledStartTime # ZeroTime /\ c.ActualStartTime > c.ScheduledStartTime
       THEN c.ActualStartTime - c.ScheduledStartTime ELSE 0)
Group(c) ==
    CASE c.Status = "Finished" -> 0
      [] c.Status = "NotFinished" -> 1
      [] c.Status = "NotStarted" -> 2
      [] c.Status = "Disqualified" -> 3
      [] OTHER -> 4
RanksBefore(c1, c2) ==
    \/ Group(c1) < Group(c2)
    \/ /\ Group(c1) = Group(c2) /\ Group(c1) = 0
       /\ \/ TotalRaceTime(c1) < TotalRaceTime(c2)
          \/ TotalRaceTime(c1) = TotalRaceTime(c2) /\ c1.ID < c2.ID
    \/ Group(c1) = Group(c2) /\ Group(c1) # 0 /\ c1.ID < c2.ID

\* C8: the report lists every competitor exactly once, the finished first by
\* ascending total race time then id, then NotFinished, NotStarted,
\* Disqualified and the other statuses, each group by ascending id.
C8_RankingOrder ==
    Completed =>
        /\ Len(outputReportFile) = Cardinality(DOMAIN Competitors)
        /\ {outputReportFile[i].id : i \in 1..Len(outputReportFile)}
               = DOMAIN Competitors
        /\ \A i, j \in 1..Len(outputReportFile) :
               i < j => RanksBefore(Competitors[outputReportFile[i].id],
                                    Competitors[outputReportFile[j].id])

\* Three competitors ranked against their ids: 3 finished faster than 2, and 1
\* did not finish.
C8_RankedAgainstIds ==
    /\ Completed
    /\ Len(outputReportFile) = 3
    /\ outputReportFile[1].id = 3 /\ outputReportFile[2].id = 2
    /\ outputReportFile[3].id = 1
    /\ Competitors[2].Status = "Finished" /\ Competitors[3].Status = "Finished"
    /\ Competitors[1].Status = "NotFinished"
    /\ Competitors[3].ScheduledStartTime # Competitors[3].ActualStartTime

\* C9: in every state, FinishCompetitor and DisqualifyCompetitor called on a
\* competitor whose status is terminal leave the simulator as it is: status,
\* finish time, reason, event history and narration log.
C9_TerminalCallsChangeNothing ==
    \A id \in DOMAIN Competitors :
        Competitors[id].Status \in TerminalStatuses =>
            \A t \in {simulator.CurrentTime, 36000000, 36004000} :
                /\ FinishCompetitor(simulator, id, t) = simulator
                /\ \A reason \in {ReasonNotStarted, ReasonExtraFiringLine} :
                       DisqualifyCompetitor(simulator, id, t, reason) = simulator

\* The last event applied is the late Started of a competitor that could not
\* continue: ProcessEvent called DisqualifyCompetitor on a NotFinished
\* competitor, which kept its finish time, and no derived event followed.
C9_DisqualifyCalledOnTerminal ==
    /\ pc = "scan" /\ Len(Events) > 0
    /\ Events[Len(Events)].ID = Started /\ IsRaw(Events[Len(Events)])
    /\ Events[Len(Events)].CompetitorID \in DOMAIN Competitors
    /\ LET c == Competitors[Events[Len(Events)].CompetitorID]
       IN  /\ c.Status = "NotFinished"
           /\ c.ScheduledStartTime # ZeroTime
           /\ Events[Len(Events)].Timestamp >
                  c.ScheduledStartTime + simulator.Config.ParsedStartDelta
           /\ c.FinishTime < Events[Len(Events)].Timestamp

\* C10: the narration log holds at most one disqualification line per
\* competitor and the history at most one derived Disqualified event per
\* competitor.
C10_OneDisqualification ==
    \A id \in CompetitorIDs :
        /\ Count(Events, LAMBDA e : IsDerived(e, Disqualified)
                                     /\ e.CompetitorID = id) <= 1
        /\ Count(OutputLog, LAMBDA l : l.msg = "is disqualified"
                                        /\ l.competitor = id) <= 1

\* A competitor disqualified for a late start, brought back by
\* EnterPenaltyLaps and disqualified by a second late Started: the history
\* holds the one derived event.
C10_DisqualifiedTwice ==
    \E id \in DOMAIN Competitors :
        /\ Competitors[id].Status = "NotStarted"
        /\ \E i \in 1..Len(Events) :
               /\ LateStartAt(i, id)
               /\ Len(Events) = i + 3
               /\ Events[i + 2].ID = EnterPenaltyLaps
               /\ Events[i + 2].CompetitorID = id
               /\ Events[i + 3].ID = Started
               /\ Events[i + 3].CompetitorID = id

\* The post-pass runs in this step: every line was read without error.
PostPass == pc = "scan" /\ pc' = "write"

\* When the post-pass runs, the competitor waits for a scheduled start whose
\* tolerance is over at the time stamp of the last event of the run.
StartOverdue(c) ==
    /\ c.Status \in {"Registered", "ReadyToStart"}
    /\ c.ScheduledStartTime # ZeroTime
    /\ LastStamp(file, lineNumber) >
           c.ScheduledStartTime + simulator.Config.ParsedStartDelta

\* C11: the post-pass gives status NotStarted with reason "NotStarted" to
\* exactly the competitors in Registered or ReadyToStart that have a scheduled
\* start and whose tolerance is over at the last event of the run; every other
\* competitor is left as it was.
C11_PostPassExact ==
    [][PostPass =>
          /\ DOMAIN simulator'.Competitors = DOMAIN Competitors
          /\ \A id \in DOMAIN Competitors :
                 IF StartOverdue(Competitors[id])
                 THEN /\ simulator'.Competitors[id].Status = "NotStarted"
                      /\ simulator'.Competitors[id].DisqualificationReason
                             = Words(<<"NotStarted">>)
                 ELSE simulator'.Competitors[id] = Competitors[id]]_vars

\* After the post-pass competitor 1, who had a scheduled start and never
\* started, is NotStarted by a derived event, and competitor 2, who has no
\* scheduled start, is still Registered.
C11_PostPassDisqualifiedOne ==
    /\ pc = "write"
    /\ DOMAIN Competitors = {1, 2}
    /\ Competitors[1].Status = "NotStarted"
    /\ Competitors[1].ScheduledStartTime # ZeroTime
    /\ \A i \in 1..Len(Events) :
           Events[i].CompetitorID = 1 => Events[i].ID # Started
    /\ IsDerived(Events[Len(Events)], Disqualified)
    /\ Events[Len(Events)].CompetitorID = 1
    /\ Competitors[2].Status = "Registered"
    /\ Competitors[2].ScheduledStartTime = ZeroTime

\* The event read is an EnterFiringRange of a registered competitor that has
\* completed every configured firing line.
ReadsExtraFiringLine(id) ==
    /\ ReadsEvent /\ InOrder
    /\ EventRead.ID = EnterFiringRange /\ EventRead.CompetitorID = id
    /\ id \in DOMAIN Competitors
    /\ Competitors[id].TotalFiringRangesCompleted >= simulator.Config.FiringLines

\* C12: an EnterFiringRange of a competitor that has completed all configured
\* firing lines makes ProcessEvent return an error, which aborts the run, and
\* disqualifies the competitor with reason "Extra firing line".
C12_ExtraFiringLineIsFatal ==
    [][\A id \in CompetitorIDs :
           ReadsExtraFiringLine(id) =>
               /\ pc' = "exit1" /\ err' # NoError
               /\ simulator'.Competitors[id].Status = "Disqualified"
               /\ simulator'.Competitors[id].DisqualificationReason
                      = Words(<<"Extra", "firing", "line">>)]_vars

\* C13: an event of a registered competitor whose kind is neither incoming
\* (1..11) nor a known derived kind (32, 33) makes ProcessEvent return an
\* error, and the run aborts.
C13_UnknownKindIsFatal ==
    [][(/\ ReadsEvent /\ InOrder
        /\ EventRead.CompetitorID \in DOMAIN Competitors
        /\ EventRead.ID \notin (1..11) \cup {32, 33})
           => pc' = "exit1" /\ err' # NoError]_vars

\* The status is not the one the event kind expects.
Unexpected(kind, status) ==
    CASE kind \in {OnStartLine, Started} ->
             status \notin {"Registered", "ReadyToStart"}
      [] kind \in {HitTarget, LeaveFiringRange} -> status # "Firing"
      [] kind = EnterPenaltyLaps -> status \notin {"Firing", "Started", "Penalized"}
      [] kind = LeavePenaltyLaps -> status # "Penalized"
      [] kind = EndLap -> status # "Started"
      [] kind = CannotContinue -> status \in TerminalStatuses
      [] OTHER -> FALSE

\* C14: OnStartLine, Started, HitTarget, LeaveFiringRange, EnterPenaltyLaps,
\* LeavePenaltyLaps, EndLap or CannotContinue applied to a registered
\* competitor in an unexpected status returns without error and without a
\* crash, and the scan goes on; so does an EndLap of a competitor that has not
\* started.
C14_UnexpectedStatusIsNotFatal ==
    [][\A id \in CompetitorIDs :
           (/\ ReadsEvent /\ InOrder
            /\ EventRead.CompetitorID = id /\ id \in DOMAIN Competitors
            /\ Unexpected(EventRead.ID, Competitors[id].Status))
               => pc' = "scan" /\ err' = NoError]_vars

\* C15: after an error of the configuration or of the event stream neither
\* output file exists and no report was generated; the report exists only
\* when every line was read without error and the post-pass has run, so that
\* no competitor is left overdue at the start.
C15_OutputsOnlyAfterTheRun ==
    /\ pc = "exit1" =>
           /\ err # NoError
           /\ created = {} /\ outputLogFile = <<>> /\ outputReportFile = <<>>
    /\ (created # {} \/ outputLogFile # <<>> \/ outputReportFile # <<>>) =>
           /\ pc = "exit0" /\ err = NoError
           /\ created = {"log", "report"}
           /\ lineNumber = Len(file)
           /\ \A i \in 1..Len(file) :
                  file[i] # <<>> => ParseEventFromString(file[i]).ok
           /\ \A id \in DOMAIN Competitors : ~StartOverdue(Competitors[id])

\* The run stopped on an error of the event stream after it had registered
\* a competitor and narrated events: no file was created.
C15_AbortedWithNarration ==
    /\ pc = "exit1"
    /\ DOMAIN Competitors # {}
    /\ Len(OutputLog) > 1
    /\ created = {} /\ outputLogFile = <<>>

\* C16: the configuration loads exactly when laps, lap length and firing
\* lines are positive, the penalty-lap length is not negative and both time
\* strings parse; a penalty-lap length of 0 is accepted.
C16_ZeroPenaltyLengthLoads ==
    pc # "load" =>
        (cfg # NoConfig <=>
             /\ configFile.Laps > 0 /\ configFile.LapLen > 0
             /\ configFile.FiringLines > 0
             /\ configFile.PenaltyLen >= 0
             /\ ParseTimeFromString(configFile.Start).ok
             /\ ParseDurationFromString(configFile.StartDelta).ok)

\* C17: a non-negative duration of whole milliseconds, formatted and parsed
\* again, is the duration itself; the string 00:01:02.500 parses, to 62.5 s,
\* and formats to itself.
C17_DurationRoundTrip ==
    /\ (codec.from = "duration" /\ codec.step = 2) =>
           codec.parsed.ok /\ codec.parsed.v = codec.dur
    /\ (/\ codec.from = "text"
        /\ codec.text = <<"0", "0", ":", "0", "1", ":", "0", "2", ".", "5", "0", "0">>)
           => /\ codec.step >= 1 => codec.parsed.ok /\ codec.parsed.v = 62500
              /\ codec.step = 2 => codec.out = codec.text

\* A duration of 100 h 59 min 59.005 s went through both conversions: its
\* string has three digits of hours and zeros before the 5 milliseconds.
C17_LongDurationCameBack ==
    /\ codec.from = "duration" /\ codec.step = 2
    /\ codec.dur = ((100 * 60 + 59) * 60 + 59) * 1000 + 5
    /\ codec.text = <<"1", "0", "0", ":", "5", "9", ":", "5", "9", ".", "0", "0", "5">>

\* This step applies an event of this kind to this registered competitor.
Applies(kind, id) ==
    /\ ReadsEvent /\ InOrder
    /\ EventRead.ID = kind /\ EventRead.CompetitorID = id
    /\ id \in DOMAIN Competitors

Was(id) == Competitors[id]
Becomes(id) == simulator'.Competitors[id]

\* The shooting counters, the penalty counters and the status are unchanged,
\* but for the entered-line marker.
CountersKept(id) ==
    /\ Becomes(id).Status = Was(id).Status
    /\ Becomes(id).TotalShots = Was(id).TotalShots
    /\ Becomes(id).TotalHits = Was(id).TotalHits
    /\ Becomes(id).HitsThisRange = Was(id).HitsThisRange
    /\ Becomes(id).TotalFiringRangesCompleted = Was(id).TotalFiringRangesCompleted
    /\ Becomes(id).MissesToPenalize = Was(id).MissesToPenalize
    /\ Becomes(id).PenaltyStartTime = Was(id).PenaltyStartTime
    /\ Becomes(id).TotalPenaltyTime = Was(id).TotalPenaltyTime
    /\ Becomes(id).TotalPenaltyLaps = Was(id).TotalPenaltyLaps

\* The effect of leaving a firing range to which shots are attributed.
LeftWithShots(id, shots) ==
    LET missed == IF shots - Was(id).HitsThisRange > 0
                  THEN shots - Was(id).HitsThisRange ELSE 0
    IN  /\ Becomes(id).TotalShots = Was(id).TotalShots + shots
        /\ Becomes(id).TotalFiringRangesCompleted =
               Was(id).TotalFiringRangesCompleted + (IF shots > 0 THEN 1 ELSE 0)
        /\ Becomes(id).MissesToPenalize = Was(id).MissesToPenalize + missed
        /\ Becomes(id).Status = "Started" <=> Becomes(id).MissesToPenalize = 0
        /\ Becomes(id).Status \in {"Started", "Firing"}
        /\ Becomes(id).HitsThisRange = 0
        /\ Becomes(id).LastFiringRangeEntered = 0
        /\ Becomes(id).TotalHits = Was(id).TotalHits
        /\ Becomes(id).TotalPenaltyLaps = Was(id).TotalPenaltyLaps
        /\ Becomes(id).TotalPenaltyTime = Was(id).TotalPenaltyTime

\* C18 as stated: every LeaveFiringRange in status Firing attributes 5 shots,
\* completes one more firing line, adds max(0, 5 - hits) to the misses owed,
\* sets Started exactly when no miss is owed and resets the hit counter and
\* the entered-line marker; in any other status it changes no shooting or
\* penalty counter and no status.
C18_Original ==
    [][\A id \in CompetitorIDs :
           Applies(LeaveFiringRange, id) =>
               IF Was(id).Status = "Firing" THEN LeftWithShots(id, 5)
               ELSE /\ CountersKept(id)
                    /\ Becomes(id).LastFiringRangeEntered
                           = Was(id).LastFiringRangeEntered]_vars

\* C18, amended: a LeaveFiringRange in status Firing attributes 5 shots and
\* completes one more firing line when the entered-line marker is beyond the
\* lines completed, and attributes no shot, completes no line and adds no
\* miss when it is not (the range was left before, or was processed before);
\* either way Started is set exactly when no miss is owed and the hit counter
\* and the marker are reset. In any other status only the marker is reset.
C18_LeaveFiringRange ==
    [][\A id \in CompetitorIDs :
           Applies(LeaveFiringRange, id) =>
               IF Was(id).Status = "Firing"
               THEN IF Was(id).LastFiringRangeEntered
                           > Was(id).TotalFiringRangesCompleted
                    THEN LeftWithShots(id, 5)
                    ELSE LeftWithShots(id, 0)
               ELSE /\ CountersKept(id)
                    /\ Becomes(id).LastFiringRangeEntered = 0]_vars

\* Competitor 1 entered a firing range and left it twice without a hit: 5
\* shots and 5 misses from the first leave, nothing from the second, still
\* Firing.
C18_LeftTwice ==
    /\ 1 \in DOMAIN Competitors
    /\ Len(Events) >= 4
    /\ Events[Len(Events)].ID = LeaveFiringRange
    /\ Events[Len(Events) - 1].ID = LeaveFiringRange
    /\ Events[Len(Events) - 2].ID = EnterFiringRange
    /\ Events[Len(Events) - 3].ID = Register
    /\ \A i \in (Len(Events) - 3)..Len(Events) : Events[i].CompetitorID = 1
    /\ Competitors[1].TotalShots = 5 /\ Competitors[1].TotalHits = 0
    /\ Competitors[1].MissesToPenalize = 5
    /\ Competitors[1].TotalFiringRangesCompleted = 1
    /\ Competitors[1].Status = "Firing"

\* The four penalty counters of c are those of d.
PenaltyCountersOf(c, d) ==
    /\ c.MissesToPenalize = d.MissesToPenalize
    /\ c.PenaltyStartTime = d.PenaltyStartTime
    /\ c.TotalPenaltyTime = d.TotalPenaltyTime
    /\ c.TotalPenaltyLaps = d.TotalPenaltyLaps

\* The simulator at hand with a penalty-lap length of 0, after an
\* EnterPenaltyLaps of this competitor.
EnteredWithoutLength(id) ==
    ProcessEvent([simulator EXCEPT !.Config.PenaltyLen = 0],
                 ParseEventFromString(
                     Line(Stamp(MaxTick), EnterPenaltyLaps, id, <<>>)).event)

\* C19: EnterPenaltyLaps sets Penalized and the penalty start time to the
\* time stamp of the event exactly when the penalty-lap length is positive and
\* misses are owed; otherwise it leaves the four penalty counters as they are
\* and sets status Started. The case of a length of 0, which no loaded
\* configuration has, is the handler applied to the state at hand.
C19_EnterPenaltyLaps ==
    [][/\ \A id \in CompetitorIDs :
              Applies(EnterPenaltyLaps, id) =>
                  /\ pc' = "scan" /\ err' = NoError
                  /\ IF simulator.Config.PenaltyLen > 0
                        /\ Was(id).MissesToPenalize > 0
                     THEN /\ Becomes(id).Status = "Penalized"
                          /\ Becomes(id).PenaltyStartTime = EventRead.Timestamp
                          /\ Becomes(id).MissesToPenalize = Was(id).MissesToPenalize
                          /\ Becomes(id).TotalPenaltyTime = Was(id).TotalPenaltyTime
                          /\ Becomes(id).TotalPenaltyLaps = Was(id).TotalPenaltyLaps
                     ELSE /\ Becomes(id).Status = "Started"
                          /\ PenaltyCountersOf(Becomes(id), Was(id))
       /\ \A id \in DOMAIN Competitors :
              /\ EnteredWithoutLength(id).err = NoError
              /\ EnteredWithoutLength(id).sim.Competitors[id].Status = "Started"
              /\ PenaltyCountersOf(EnteredWithoutLength(id).sim.Competitors[id],
                                   Competitors[id])]_vars

\* Competitor 1 left a firing range with 5 misses owed and entered the
\* penalty laps at the second time stamp: Penalized from that time on.
C19_EnteredOwing ==
    /\ 1 \in DOMAIN Competitors
    /\ Len(Events) >= 2
    /\ Events[Len(Events)].ID = EnterPenaltyLaps
    /\ Events[Len(Events)].CompetitorID = 1
    /\ Events[Len(Events)].Timestamp = 36002000
    /\ Events[Len(Events) - 1].ID = LeaveFiringRange
    /\ Competitors[1].Status = "Penalized"
    /\ Competitors[1].PenaltyStartTime = 36002000
    /\ Competitors[1].MissesToPenalize = 5

\* The simulator at hand after a LeavePenaltyLaps of this competitor stamped
\* with the first time stamp, whatever the time of the last event: the order
\* test of LoadEventsFromFile lets no such event through.
LeftAtFirstStamp(id) ==
    ProcessEvent(simulator,
                 ParseEventFromString(
                     Line(Stamp(0), LeavePenaltyLaps, id, <<>>)).event)

\* C20: LeavePenaltyLaps of a Penalized competitor adds event time - penalty
\* start time to the total penalty time when that is not negative and nothing
\* when it is, adds the misses owed to the total penalty laps, clears the
\* misses owed and the penalty start time and sets Started; the total penalty
\* time and the total penalty laps of a competitor never decrease.
C20_LeavePenaltyLaps ==
    [][/\ \A id \in CompetitorIDs :
              (Applies(LeavePenaltyLaps, id) /\ Was(id).Status = "Penalized") =>
                  LET elapsed == EventRead.Timestamp - Was(id).PenaltyStartTime
                  IN  /\ Was(id).PenaltyStartTime # ZeroTime
                      /\ Becomes(id).TotalPenaltyTime =
                             Was(id).TotalPenaltyTime
                                 + (IF elapsed >= 0 THEN elapsed ELSE 0)
                      /\ Becomes(id).TotalPenaltyLaps =
                             Was(id).TotalPenaltyLaps + Was(id).MissesToPenalize
                      /\ Becomes(id).MissesToPenalize = 0
                      /\ Becomes(id).PenaltyStartTime = ZeroTime
                      /\ Becomes(id).Status = "Started"
       /\ \A id \in DOMAIN Competitors :
              (/\ Was(id).Status = "Penalized"
               /\ Was(id).PenaltyStartTime > 36000000) =>
                  LET left == LeftAtFirstStamp(id).sim.Competitors[id]
                  IN  /\ left.TotalPenaltyTime = Was(id).TotalPenaltyTime
                      /\ left.TotalPenaltyLaps =
                             Was(id).TotalPenaltyLaps + Was(id).MissesToPenalize
                      /\ left.MissesToPenalize = 0
                      /\ left.PenaltyStartTime = ZeroTime
                      /\ left.Status = "Started"
       /\ \A id \in DOMAIN Competitors \cap DOMAIN simulator'.Competitors :
              /\ Becomes(id).TotalPenaltyTime >= Was(id).TotalPenaltyTime
              /\ Becomes(id).TotalPenaltyLaps >= Was(id).TotalPenaltyLaps]_vars

\* Competitor 1 owed 5 misses, entered the penalty laps at the first time
\* stamp and left them at the second: 2 s of penalty time, 5 penalty laps.
C20_ServedPenalty ==
    /\ 1 \in DOMAIN Competitors
    /\ Len(Events) >= 2
    /\ Events[Len(Events)].ID = LeavePenaltyLaps
    /\ Events[Len(Events)].CompetitorID = 1
    /\ Events[Len(Events) - 1].ID = EnterPenaltyLaps
    /\ Events[Len(Events) - 1].CompetitorID = 1
    /\ Competitors[1].Status = "Started"
    /\ Competitors[1].TotalPenaltyTime = 2000
    /\ Competitors[1].TotalPenaltyLaps = 5
    /\ Competitors[1].MissesToPenalize = 0
    /\ Competitors[1].PenaltyStartTime = ZeroTime

\* C21: EndLap of a competitor in status Started on lap k, 1 <= k <= laps,
\* stores event time - lap start time at lap index k; on the last lap the
\* competitor is Finished at the event time and one derived Finished event
\* follows the event, whatever firing lines or misses remain; on another lap
\* the current lap is k + 1, started at the event time, and no derived event
\* is appended.
C21_EndLap ==
    [][\A id \in CompetitorIDs :
           (/\ Applies(EndLap, id)
            /\ Was(id).Status = "Started"
            /\ Was(id).CurrentLap \in 1..simulator.Config.Laps) =>
               LET k == Was(id).CurrentLap
                   now == EventRead.Timestamp
                   history == simulator'.Events
               IN  /\ pc' = "scan" /\ err' = NoError
                   /\ Len(Becomes(id).LapDetails) >= k
                   /\ Becomes(id).LapDetails[k].Duration =
                          now - Was(id).CurrentLapStartTime
                   /\ IF k = simulator.Config.Laps
                      THEN /\ Becomes(id).Status = "Finished"
                           /\ Becomes(id).FinishTime = now
                           /\ Len(history) = Len(Events) + 2
                           /\ history[Len(Events) + 1] = EventRead
                           /\ IsDerived(history[Len(Events) + 2], Finished)
                           /\ history[Len(Events) + 2].CompetitorID = id
                           /\ history[Len(Events) + 2].Timestamp = now
                      ELSE /\ Becomes(id).Status = "Started"
                           /\ Becomes(id).CurrentLap = k + 1
                           /\ Becomes(id).CurrentLapStartTime = now
                           /\ history = Append(Events, EventRead)]_vars

\* Competitor 1 ended both laps, the second 2 s after the first, and is
\* Finished by a derived event although it completed no firing line.
C21_FinishedWithoutShooting ==
    /\ 1 \in DOMAIN Competitors
    /\ Len(Events) >= 3
    /\ IsDerived(Events[Len(Events)], Finished)
    /\ Events[Len(Events)].CompetitorID = 1
    /\ Events[Len(Events) - 1].ID = EndLap /\ IsRaw(Events[Len(Events) - 1])
    /\ Competitors[1].Status = "Finished"
    /\ Competitors[1].FinishTime = 36002000
    /\ Competitors[1].TotalFiringRangesCompleted = 0
    /\ Len(Competitors[1].LapDetails) = 2
    /\ Competitors[1].LapDetails[1].Duration = 0
    /\ Competitors[1].LapDetails[2].Duration = 2000

\* C22: CannotContinue of a competitor whose status is not terminal sets
\* NotFinished, finish time = event time and the reason to the extra tokens
\* ("Reason not specified" without any) and appends no derived event; of a
\* competitor whose status is terminal it leaves status, finish time and
\* reason as they were.
C22_CannotContinue ==
    [][\A id \in CompetitorIDs :
           Applies(CannotContinue, id) =>
               IF Was(id).Status \notin TerminalStatuses
               THEN /\ Becomes(id).Status = "NotFinished"
                    /\ Becomes(id).FinishTime = EventRead.Timestamp
                    /\ Becomes(id).DisqualificationReason =
                           IF EventRead.ExtraParameters = <<>>
                           THEN Words(<<"Reason", "not", "specified">>)
                           ELSE EventRead.ExtraParameters
                    /\ simulator'.Events = Append(Events, EventRead)
               ELSE /\ Becomes(id).Status = Was(id).Status
                    /\ Becomes(id).FinishTime = Was(id).FinishTime
                    /\ Becomes(id).DisqualificationReason =
                           Was(id).DisqualificationReason]_vars

\* This step makes this competitor Finished.
Finishes(id) ==
    /\ id \in DOMAIN Competitors
    /\ Was(id).Status # "Finished"
    /\ Becomes(id).Status = "Finished"

\* C23: a competitor that becomes Finished with penalty laps served has the
\* summary total duration = total penalty time and average speed = penalty
\* laps x penalty-lap length / total penalty time (metres over milliseconds,
\* as the fraction of m/s the model keeps), 0 when no penalty time was
\* recorded; one that served no penalty lap has the empty summary.
C23_PenaltySummary ==
    [][\A id \in CompetitorIDs :
           Finishes(id) =>
               LET c == Becomes(id)
                   distance == c.TotalPenaltyLaps * simulator.Config.PenaltyLen
               IN  IF c.TotalPenaltyLaps > 0
                   THEN /\ c.PenaltyDetails.TotalDuration = c.TotalPenaltyTime
                        /\ c.PenaltyDetails.AverageSpeed =
                               IF c.TotalPenaltyTime = 0 THEN ZeroSpeed
                               ELSE [num |-> distance * 1000,
                                     den |-> c.TotalPenaltyTime]
                   ELSE c.PenaltyDetails = NoPenaltyDetail]_vars

\* Competitor 1 finished the scenario having served four penalty laps in no
\* time: the summary has duration 0 and speed 0.
C23_FinishedWithInstantPenalty ==
    /\ RunOf(ScenarioConfig, PenaltyAtOnceFile(1))
    /\ 1 \in DOMAIN Competitors
    /\ Competitors[1].Status = "Finished"
    /\ Competitors[1].TotalPenaltyLaps = 4
    /\ Competitors[1].TotalPenaltyTime = 0
    /\ Competitors[1].PenaltyDetails = [TotalDuration |-> 0, AverageSpeed |-> ZeroSpeed]

IsPrefix(s, t) == Len(s) <= Len(t) /\ SubSeq(t, 1, Len(s)) = s

\* The events the engine narrates: the incoming ones and those it derives.
IsNarrated(event) == event.IsIncoming \/ ~IsRaw(event)

\* The narration lines of these events, in their order.
RECURSIVE Narration(_)
Narration(events) ==
    IF events = <<>> THEN <<>>
    ELSE (IF IsNarrated(Head(events)) THEN <<EventString(Head(events))>> ELSE <<>>)
         \o Narration(Tail(events))

\* C24: no step removes or rewrites an entry of the event history or of the
\* narration log; a step that applies an event appends the event, then at
\* most one derived Finished or Disqualified event of the same competitor, and
\* appends their narration lines in that order, the derived line right after
\* the line of the event, and nothing else.
C24_AppendOnly ==
    [][/\ IsPrefix(Events, simulator'.Events)
       /\ IsPrefix(OutputLog, simulator'.OutputLog)
       /\ (ReadsEvent /\ InOrder) =>
              LET history == simulator'.Events
                  added == SubSeq(history, Len(Events) + 1, Len(history))
              IN  /\ Len(added) \in {1, 2}
                  /\ added[1] = EventRead
                  /\ Len(added) = 2 =>
                         /\ \/ IsDerived(added[2], Finished)
                            \/ IsDerived(added[2], Disqualified)
                         /\ added[2].CompetitorID = EventRead.CompetitorID
                  /\ simulator'.OutputLog = OutputLog \o Narration(added)]_vars

\* Competitor 1 started late and was disqualified by a derived event, and an
\* event was applied after that: the log ends with the line of Started, the
\* line of the disqualification and the line of the next event.
C24_DerivedLineBetweenEvents ==
    LET n == Len(Events)
        m == Len(OutputLog)
    IN  /\ n >= 3 /\ m >= 3
        /\ Events[n - 2].ID = Started /\ Events[n - 2].IsIncoming
        /\ IsDerived(Events[n - 1], Disqualified)
        /\ Events[n].IsIncoming
        /\ OutputLog[m - 2] = EventString(Events[n - 2])
        /\ OutputLog[m - 1] = EventString(Events[n - 1])
        /\ OutputLog[m] = EventString(Events[n])

\* C25: for every competitor the history holds at most one derived Finished
\* event and the narration log at most one "has finished" line.
C25_FinishedOnce ==
    \A id \in CompetitorIDs :
        /\ Count(Events, LAMBDA e : IsDerived(e, Finished) /\ e.CompetitorID = id) <= 1
        /\ Count(OutputLog,
                 LAMBDA line : line.msg = "has finished" /\ line.competitor = id) <= 1

\* C26: for every competitor the hits of the firing lines already left are
\* no more than the shots attributed: TotalHits - HitsThisRange <= TotalShots.
C26_HitsWithinShots ==
    \A id \in DOMAIN Competitors :
        Competitors[id].TotalHits - Competitors[id].HitsThisRange
            <= Competitors[id].TotalShots

\* C27: for every competitor the firing lines completed are no more than the
\* configured firing lines, TotalShots is 5 times the firing lines completed,
\* and the current lap is no more than the configured laps.
C27_CountersWithinConfig ==
    \A id \in DOMAIN Competitors :
        LET c == Competitors[id]
        IN  /\ c.TotalFiringRangesCompleted <= simulator.Config.FiringLines
            /\ c.TotalShots = 5 * c.TotalFiringRangesCompleted
            /\ c.CurrentLap <= simulator.Config.Laps

\* Competitor 1 completed the only firing line and the only lap, and then
\* entered the firing line and ended a lap once more: the counters stay at
\* the configured numbers.
C27_AtTheConfiguredNumbers ==
    /\ RunOf(RunConfig(1, 1),
             RunFile(1, 1, <<1>>, <<5>>)
             \o <<Line(At(10, 30, 0), EnterFiringRange, 1, <<IntTok(1)>>),
                  Line(At(10, 30, 0), EndLap, 1, <<>>)>>)
    /\ lineNumber = Len(file)
    /\ 1 \in DOMAIN Competitors
    /\ Competitors[1].TotalFiringRangesCompleted = 1
    /\ Competitors[1].TotalShots = 5
    /\ Competitors[1].CurrentLap = 1
    /\ Len(Events) = Len(file) + 1

\* C28: the narration log is a function of the configuration and the event
\* file: whatever order the post-pass visits the competitors in, it leaves the
\* same narration lines in the same order.
C28_LogIsDeterministic ==
    [][PostPass =>
           \A order \in Orders(DOMAIN Competitors) :
               CheckForNotStarted(simulator, order).OutputLog
                   = simulator'.OutputLog]_vars

====
